---------------------------- MODULE Spec2Model ----------------------------
(***************************************************************************)
(* A model of the dsa-visualizer core: the input extractor                 *)
(* (frontend/src/utils/codeParser.js), the pattern classifier              *)
(* (frontend/src/services/algorithmDetector.js) and the trace synthesizer  *)
(* (generateVisualizationSteps / generateBinarySearchSteps).               *)
(*                                                                         *)
(* JavaScript strings are sequences of one-character strings; JavaScript   *)
(* values are tagged records; the classifier's scores are IEEE-754 doubles *)
(* kept exactly (see the section "IEEE-754 doubles").                      *)
(***************************************************************************)
EXTENDS Integers, Sequences, FiniteSets, TLC

(***************************************************************************)
(* JavaScript values.                                                      *)
(*   a number n * 10^-exp is [type |-> "number", val |-> n, exp |-> e],    *)
(*   normalised (exp = 0 for every integer).                               *)
(***************************************************************************)
JSUndefined == [type |-> "undefined"]
JSNull == [type |-> "null"]
JSNaN == [type |-> "NaN"]
Dec(n, e) == [type |-> "number", val |-> n, exp |-> e]
Num(n) == Dec(n, 0)
Str(s) == [type |-> "string", str |-> s]

IsNumber(v) == v.type = "number"
IsInteger(v) == v.type = "number" /\ v.exp = 0

\* ToBoolean: undefined, null, NaN, 0 and "" are falsy.
Truthy(v) ==
    CASE v.type \in {"undefined", "null", "NaN"} -> FALSE
      [] v.type = "number" -> v.val # 0
      [] v.type = "string" -> v.str # <<>>
      [] OTHER -> TRUE

RECURSIVE Pow10(_)
Pow10(e) == IF e = 0 THEN 1 ELSE 10 * Pow10(e - 1)

\* a < b and a === b on numbers (NaN compares false with everything).
NumLess(a, b) ==
    /\ IsNumber(a) /\ IsNumber(b)
    /\ a.val * Pow10(b.exp) < b.val * Pow10(a.exp)
StrictEq(a, b) == a.type # "NaN" /\ a = b

(***************************************************************************)
(* Strings.                                                                *)
(***************************************************************************)
Digits == <<"0", "1", "2", "3", "4", "5", "6", "7", "8", "9">>
DigitSet == {Digits[i] : i \in 1..10}
DigitOf == [c \in DigitSet |-> (CHOOSE i \in 1..10 : Digits[i] = c) - 1]
DigitVal(c) == DigitOf[c]
\* \s of the regular expressions, and the white space trim() strips.
WhiteSpace == {" ", "\n", "\t"}

Upper == <<"A", "B", "C", "D", "E", "F", "G", "H", "I", "J", "K", "L", "M",
           "N", "O", "P", "Q", "R", "S", "T", "U", "V", "W", "X", "Y", "Z">>
Lower == <<"a", "b", "c", "d", "e", "f", "g", "h", "i", "j", "k", "l", "m",
           "n", "o", "p", "q", "r", "s", "t", "u", "v", "w", "x", "y", "z">>
UpperSet == {Upper[i] : i \in 1..Len(Upper)}
LowerOf == [c \in UpperSet |-> Lower[CHOOSE i \in 1..Len(Upper) : Upper[i] = c]]
LowerChar(c) == IF c \in UpperSet THEN LowerOf[c] ELSE c
toLowerCase(s) == [i \in 1..Len(s) |-> LowerChar(s[i])]

\* s.startsWith(lit, i - 1), 1-based here.
LitAt(s, i, lit) ==
    /\ i + Len(lit) - 1 <= Len(s)
    /\ \A j \in 1..Len(lit) : s[i + j - 1] = lit[j]
\* the same under the regular expression flag i.
LitAtI(s, i, lit) ==
    /\ i + Len(lit) - 1 <= Len(s)
    /\ \A j \in 1..Len(lit) : LowerChar(s[i + j - 1]) = LowerChar(lit[j])

includes(s, sub) ==
    \E i \in 1..(Len(s) - Len(sub) + 1) : s[i] = sub[1] /\ LitAt(s, i, sub)

\* the least index >= i whose character is not in set, Len(s) + 1 if none.
RECURSIVE SkipWhile(_, _, _)
SkipWhile(s, i, set) ==
    IF i > Len(s) \/ s[i] \notin set THEN i ELSE SkipWhile(s, i + 1, set)
SkipWs(s, i) == SkipWhile(s, i, WhiteSpace)
SkipDigits(s, i) == SkipWhile(s, i, DigitSet)
\* the least index >= i whose character is in set, Len(s) + 1 if none.
RECURSIVE NextIn(_, _, _)
NextIn(s, i, set) ==
    IF i > Len(s) \/ s[i] \in set THEN i ELSE NextIn(s, i + 1, set)

\* the greatest index <= i whose character is not white space, 0 if none.
RECURSIVE LastNonWs(_, _)
LastNonWs(s, i) ==
    IF i = 0 \/ s[i] \notin WhiteSpace THEN i ELSE LastNonWs(s, i - 1)
trim(s) == SubSeq(s, SkipWs(s, 1), LastNonWs(s, Len(s)))

\* s.split(sep) for a one-character separator: "" gives [""].
RECURSIVE split(_, _)
split(s, sep) ==
    LET i == NextIn(s, 1, {sep})
    IN  IF i <= Len(s)
        THEN <<SubSeq(s, 1, i - 1)>> \o split(SubSeq(s, i + 1, Len(s)), sep)
        ELSE <<s>>

\* the value of the decimal digits s[a..b] (0 when a > b).
RECURSIVE DigitsValue(_, _, _)
DigitsValue(s, a, b) ==
    IF a > b THEN 0 ELSE 10 * DigitsValue(s, a, b - 1) + DigitVal(s[b])

\* a decimal n * 10^-e without trailing zeros in the fraction.
RECURSIVE Normalise(_, _)
Normalise(n, e) ==
    IF e > 0 /\ n % 10 = 0 THEN Normalise(n \div 10, e - 1) ELSE Dec(n, e)

\* parseInt(string): leading white space, a sign, then the longest run of
\* decimal digits; NaN when there is none.
parseInt(s) ==
    LET a == SkipWs(s, 1)
        neg == a <= Len(s) /\ s[a] = "-"
        b == IF a <= Len(s) /\ s[a] \in {"-", "+"} THEN a + 1 ELSE a
        c == SkipDigits(s, b)
    IN  IF c = b THEN JSNaN
        ELSE Num((IF neg THEN -1 ELSE 1) * DigitsValue(s, b, c - 1))

\* parseFloat(string): leading white space, a sign, digits, then an optional
\* "." and digits; NaN when neither part has a digit.
parseFloat(s) ==
    LET a == SkipWs(s, 1)
        neg == a <= Len(s) /\ s[a] = "-"
        b == IF a <= Len(s) /\ s[a] \in {"-", "+"} THEN a + 1 ELSE a
        c == SkipDigits(s, b)
        dot == c <= Len(s) /\ s[c] = "."
        d == IF dot THEN SkipDigits(s, c + 1) ELSE c
        frac == IF dot THEN d - (c + 1) ELSE 0
        sign == IF neg THEN -1 ELSE 1
    IN  IF c = b /\ frac = 0 THEN JSNaN
        ELSE Normalise(sign * (DigitsValue(s, b, c - 1) * Pow10(frac)
                               + (IF dot THEN DigitsValue(s, c + 1, d - 1) ELSE 0)),
                       frac)

\* Number.prototype.toString of an integer.
RECURSIVE NatToString(_)
NatToString(n) ==
    IF n < 10 THEN <<Digits[n + 1]>>
    ELSE NatToString(n \div 10) \o <<Digits[(n % 10) + 1]>>
\* ToString of the values the callers pass.
JSToString(v) ==
    CASE v.type = "string" -> v.str
      [] v.type = "number" ->
            IF v.val < 0 THEN <<"-">> \o NatToString(-v.val) ELSE NatToString(v.val)
      [] v.type = "undefined" -> <<"u", "n", "d", "e", "f", "i", "n", "e", "d">>
      [] v.type = "null" -> <<"n", "u", "l", "l">>
      [] OTHER -> <<"N", "a", "N">>

(***************************************************************************)
(* Input extractor: frontend/src/utils/codeParser.js                       *)
(***************************************************************************)
\* \[([^\[\]]*)\] at b: the index of the closing bracket, 0 when it does
\* not match there.
CloseOf(s, b) ==
    IF b <= Len(s) /\ s[b] = "["
    THEN LET q == NextIn(s, b + 1, {"[", "]"})
         IN  IF q <= Len(s) /\ s[q] = "]" THEN q ELSE 0
    ELSE 0

\* the prefixes of arrayPatterns, in order: the generic pattern has none, the
\* others are  name\s*=\s*  before the bracket.
arrayPatterns ==
    << <<>>, <<"a", "r", "r">>, <<"a", "r", "r", "a", "y">>, <<"n", "u", "m", "s">> >>

\* where the bracket of a match starting at p stands, 0 when the prefix does
\* not match at p.
BracketPos(s, p, pre) ==
    IF pre = <<>> THEN p
    ELSE IF ~LitAt(s, p, pre) THEN 0
    ELSE LET j == SkipWs(s, p + Len(pre))
         IN  IF j <= Len(s) /\ s[j] = "=" THEN SkipWs(s, j + 1) ELSE 0

\* while ((match = pattern.exec(code)) !== null): the captures match[1] of
\* the successive matches from lastIndex = from - 1 on.
RECURSIVE execAll(_, _, _)
execAll(s, from, pre) ==
    IF from > Len(s) THEN <<>>
    ELSE LET b == BracketPos(s, from, pre)
             q == IF b = 0 THEN 0 ELSE CloseOf(s, b)
         IN  IF q = 0 THEN execAll(s, from + 1, pre)
             ELSE <<SubSeq(s, b + 1, q - 1)>> \o execAll(s, q + 1, pre)

SelectSeqNumbers(seq) == SelectSeq(seq, LAMBDA v : v.type = "number")

parseNumberArray(content) ==
    LET parts == split(content, ",")
        items == SelectSeq([i \in 1..Len(parts) |-> trim(parts[i])],
                           LAMBDA item : item # <<>>)
    IN  SelectSeqNumbers([i \in 1..Len(items) |-> parseFloat(items[i])])

\* the sequences one pattern pushes.
RECURSIVE PushMatches(_)
PushMatches(caps) ==
    IF caps = <<>> THEN <<>>
    ELSE LET arrayContent == trim(Head(caps))
             numbers == parseNumberArray(arrayContent)
         IN  (IF arrayContent # <<>> /\ Len(numbers) > 0 THEN <<numbers>> ELSE <<>>)
             \o PushMatches(Tail(caps))

\* the default were it the six numbers of the editor
DefaultArraySix == <<Num(1), Num(3), Num(5), Num(7), Num(9), Num(11)>>
DefaultArray == <<Num(1), Num(3), Num(5), Num(7), Num(9), Num(11), Num(13),
                  Num(15), Num(17), Num(19)>>

extractArrays(code) ==
    LET s == JSToString(code)
        arrays == PushMatches(execAll(s, 1, arrayPatterns[1]))
                  \o PushMatches(execAll(s, 1, arrayPatterns[2]))
                  \o PushMatches(execAll(s, 1, arrayPatterns[3]))
                  \o PushMatches(execAll(s, 1, arrayPatterns[4]))
    IN  IF Len(arrays) = 0 THEN <<DefaultArray>> ELSE arrays

\* (\d+) at j: the span <<j, e>> of the longest run of digits, <<>> if none.
DigitsAt(s, j) ==
    LET e == SkipDigits(s, j)
    IN  IF j <= Len(s) /\ e > j THEN <<j, e - 1>> ELSE <<>>

\* (\d+)\s*\) at j.
DigitsParenAt(s, j) ==
    LET cap == DigitsAt(s, j)
    IN  IF cap = <<>> THEN <<>>
        ELSE LET k == SkipWs(s, cap[2] + 1)
             IN  IF k <= Len(s) /\ s[k] = ")" THEN cap ELSE <<>>

W_target == <<"t", "a", "r", "g", "e", "t">>
W_find == <<"f", "i", "n", "d">>
W_search == <<"s", "e", "a", "r", "c", "h">>

\* /target\s*=\s*(\d+)/i at p: the span of the capture, <<>> if no match.
TargetAssignAt(s, p) ==
    IF ~LitAtI(s, p, W_target) THEN <<>>
    ELSE LET j == SkipWs(s, p + 6)
         IN  IF j <= Len(s) /\ s[j] = "=" THEN DigitsAt(s, SkipWs(s, j + 1)) ELSE <<>>

\* /find\s*\(\s*(\d+)\s*\)/i at p.
FindCallAt(s, p) ==
    IF ~LitAtI(s, p, W_find) THEN <<>>
    ELSE LET j == SkipWs(s, p + 4)
         IN  IF j <= Len(s) /\ s[j] = "("
             THEN DigitsParenAt(s, SkipWs(s, j + 1)) ELSE <<>>

\* .*?,\s*(\d+)\s*\) from k on a line that ends before eol.
RECURSIVE LazyComma(_, _, _)
LazyComma(s, k, eol) ==
    LET c == NextIn(s, k, {","})
    IN  IF c >= eol THEN <<>>
        ELSE LET cap == DigitsParenAt(s, SkipWs(s, c + 1))
             IN  IF cap # <<>> THEN cap ELSE LazyComma(s, c + 1, eol)

\* /search\s*\(\s*.*?,\s*(\d+)\s*\)/i at p: .*? is lazy and stops at a line
\* break, so the comma is the first one on the line after which the rest
\* of the pattern matches.
SearchCallAt(s, p) ==
    IF ~LitAtI(s, p, W_search) THEN <<>>
    ELSE LET j == SkipWs(s, p + 6)
         IN  IF ~(j <= Len(s) /\ s[j] = "(") THEN <<>>
             ELSE LET k == SkipWs(s, j + 1)
                      eol == NextIn(s, k, {"\n"})
                  IN  LazyComma(s, k, eol)

\* /== (\d+)/ at p.
EqualsAt(s, p) ==
    IF LitAt(s, p, <<"=", "=", " ">>) THEN DigitsAt(s, p + 3) ELSE <<>>

\* /target:\s*(\d+)/i at p.
TargetColonAt(s, p) ==
    IF LitAtI(s, p, W_target \o <<":">>) THEN DigitsAt(s, SkipWs(s, p + 7)) ELSE <<>>

\* targetPatterns[k] at p.
targetPatterns(s, p, k) ==
    CASE k = 1 -> TargetAssignAt(s, p)
      [] k = 2 -> FindCallAt(s, p)
      [] k = 3 -> SearchCallAt(s, p)
      [] k = 4 -> EqualsAt(s, p)
      [] OTHER -> TargetColonAt(s, p)
NumTargetPatterns == 5

\* code.match(targetPatterns[k]): the capture of the leftmost match, <<>>
\* for null.
RECURSIVE MatchFrom(_, _, _)
MatchFrom(s, p, k) ==
    IF p > Len(s) THEN <<>>
    ELSE LET cap == targetPatterns(s, p, k)
         IN  IF cap = <<>> THEN MatchFrom(s, p + 1, k)
             ELSE <<SubSeq(s, cap[1], cap[2])>>
match(s, k) == MatchFrom(s, 1, k)

DefaultTarget == 7

\* the patterns were they tried from the last one down
RECURSIVE TargetFromLast(_, _)
TargetFromLast(s, k) ==
    IF k < 1 THEN Num(DefaultTarget)
    ELSE LET m == match(s, k)
         IN  IF m # <<>> THEN parseInt(m[1]) ELSE TargetFromLast(s, k - 1)
extractTargetLastFirst(s) == TargetFromLast(s, NumTargetPatterns)

\* for (const pattern of targetPatterns) from pattern k on.
RECURSIVE TargetFrom(_, _)
TargetFrom(s, k) ==
    IF k > NumTargetPatterns THEN Num(DefaultTarget)
    ELSE LET m == match(s, k)
         IN  IF m # <<>> THEN parseInt(m[1]) ELSE TargetFrom(s, k + 1)
extractTarget(s) == TargetFrom(s, 1)

\* the fallback were it the editor's sequence, not the default one
FallbackEditorArray ==
    [arrays |-> << <<Num(1), Num(3), Num(5), Num(7), Num(9), Num(11)>> >>,
     target |-> Num(7), variables |-> <<>>, functions |-> <<>>]
\* what the catch block of parseCodeInput leaves.
Fallback ==
    [arrays |-> <<DefaultArray>>, target |-> Num(7), variables |-> <<>>,
     functions |-> <<>>]

customNumbers(customArray) ==
    LET toks == split(customArray.str, ",")
    IN  SelectSeqNumbers([i \in 1..Len(toks) |-> parseInt(trim(toks[i]))])

\* parseCodeInput were the sequences of the text added to the explicit one
parseCodeInputAppending(code, customArray, customTarget) ==
    LET useArray == Truthy(customArray)
        throwsSplit == useArray /\ customArray.type # "string"
        numbers == customNumbers(customArray)
        arrays1 == IF useArray /\ ~throwsSplit /\ Len(numbers) > 0
                   THEN <<numbers>> ELSE <<>>
        target1 == IF Truthy(customTarget)
                   THEN parseInt(JSToString(customTarget)) ELSE JSNull
        arrays2 == arrays1 \o extractArrays(code)
        throwsMatch == ~Truthy(target1) /\ code.type # "string"
        target2 == IF ~Truthy(target1) THEN extractTarget(code.str) ELSE target1
    IN  IF throwsSplit \/ throwsMatch THEN Fallback
        ELSE [arrays |-> arrays2, target |-> target2, variables |-> <<>>,
              functions |-> <<>>]

parseCodeInput(code, customArray, customTarget) ==
    LET useArray == Truthy(customArray)
        \* customArray.split is not a function
        throwsSplit == useArray /\ customArray.type # "string"
        numbers == customNumbers(customArray)
        arrays1 == IF useArray /\ ~throwsSplit /\ Len(numbers) > 0
                   THEN <<numbers>> ELSE <<>>
        target1 == IF Truthy(customTarget)
                   THEN parseInt(JSToString(customTarget)) ELSE JSNull
        arrays2 == IF Len(arrays1) = 0 THEN extractArrays(code) ELSE arrays1
        \* code.match is not a function, or code is null or undefined
        throwsMatch == ~Truthy(target1) /\ code.type # "string"
        target2 == IF ~Truthy(target1) THEN extractTarget(code.str) ELSE target1
    IN  IF throwsSplit \/ throwsMatch THEN Fallback
        ELSE [arrays |-> arrays2, target |-> target2, variables |-> <<>>,
              functions |-> <<>>]

(***************************************************************************)
(* IEEE-754 doubles.                                                       *)
(*                                                                         *)
(* The detectors add the literals 0.1, 0.2, 0.3 and 0.4 in double          *)
(* arithmetic and compare the sum with 0.3, and 0.1 + 0.2 > 0.3 there.     *)
(* Every double x the detectors produce with |x| < 2 is a multiple of      *)
(* 2^-56 and is kept exactly as the pair (k, d) with                       *)
(*      x = (k * 2^56 + d) / (10 * 2^56),                                  *)
(* k the number of tenths and d the (tiny) error.  With m = x * 2^56 and   *)
(* 2^56 = 10 * 7205759403792793 + 6, m = k * 7205759403792793 +            *)
(* (6k + d) / 10, so m modulo 32 is (25k + (6k + d) / 10) modulo 32: that  *)
(* is all that rounding to nearest, ties to even, needs.                   *)
(***************************************************************************)
F(k, d) == [k |-> k, d |-> d]
\* the doubles nearest to the decimal literals of the source.
F0_0 == F(0, 0)
F0_1 == F(1, 4)
F0_2 == F(2, 8)
F0_3 == F(3, -8)
F0_4 == F(4, 16)
F1_0 == F(10, 0)

FNeg(a) == F(-a.k, -a.d)
FLess(a, b) == a.k < b.k \/ (a.k = b.k /\ a.d < b.d)

\* the unit in the last place of x >= 0, in units of 2^-56.
Ulp(k, d) ==
    IF k > 10 \/ (k = 10 /\ d >= 0) THEN 16
    ELSE IF k > 5 \/ (k = 5 /\ d >= 0) THEN 8
    ELSE IF k >= 3 THEN 4
    ELSE IF k >= 2 THEN 2
    ELSE 1

\* the exact value (k, d) >= 0 rounded to the nearest double, ties to even.
FRound(k, d) ==
    LET u == Ulp(k, d)
        mm == (25 * k + ((6 * k + d) \div 10)) % (2 * u)
        r == mm % u
        delta == IF r = 0 THEN 0
                 ELSE IF 2 * r < u THEN -r
                 ELSE IF 2 * r > u THEN u - r
                 ELSE IF mm = r THEN -r ELSE u - r
    IN  F(k, d + 10 * delta)

FAdd(a, b) ==
    LET k == a.k + b.k
        d == a.d + b.d
    IN  IF k < 0 \/ (k = 0 /\ d < 0) THEN FNeg(FRound(-k, -d)) ELSE FRound(k, d)
FSub(a, b) == FAdd(a, FNeg(b))
FMin(a, b) == IF FLess(b, a) THEN b ELSE a
FMax(a, b) == IF FLess(a, b) THEN b ELSE a

(***************************************************************************)
(* Pattern classifier: frontend/src/services/algorithmDetector.js          *)
(***************************************************************************)
\* the keywords of the detectors, each the argument of a code.includes
K ==
    [left |-> <<"l", "e", "f", "t">>,
     right |-> <<"r", "i", "g", "h", "t">>,
     mid |-> <<"m", "i", "d">>,
     middle |-> <<"m", "i", "d", "d", "l", "e">>,
     while |-> <<"w", "h", "i", "l", "e">>,
     binary |-> <<"b", "i", "n", "a", "r", "y">>,
     search |-> <<"s", "e", "a", "r", "c", "h">>,
     sorted |-> <<"s", "o", "r", "t", "e", "d">>,
     ascending |-> <<"a", "s", "c", "e", "n", "d", "i", "n", "g">>,
     sum |-> <<"s", "u", "m">>,
     window |-> <<"w", "i", "n", "d", "o", "w">>,
     start |-> <<"s", "t", "a", "r", "t">>,
     end |-> <<"e", "n", "d">>,
     substring |-> <<"s", "u", "b", "s", "t", "r", "i", "n", "g">>,
     subarray |-> <<"s", "u", "b", "a", "r", "r", "a", "y">>,
     expand |-> <<"e", "x", "p", "a", "n", "d">>,
     contract |-> <<"c", "o", "n", "t", "r", "a", "c", "t">>,
     sort |-> <<"s", "o", "r", "t">>,
     swap |-> <<"s", "w", "a", "p">>,
     for |-> <<"f", "o", "r">>,
     bubble |-> <<"b", "u", "b", "b", "l", "e">>,
     quick |-> <<"q", "u", "i", "c", "k">>,
     merge |-> <<"m", "e", "r", "g", "e">>,
     dp |-> <<"d", "p">>,
     memo |-> <<"m", "e", "m", "o">>,
     cache |-> <<"c", "a", "c", "h", "e">>,
     memoization |-> <<"m", "e", "m", "o", "i", "z", "a", "t", "i", "o", "n">>,
     dynamic |-> <<"d", "y", "n", "a", "m", "i", "c">>,
     programming |-> <<"p", "r", "o", "g", "r", "a", "m", "m", "i", "n", "g">>,
     optimal |-> <<"o", "p", "t", "i", "m", "a", "l">>,
     subproblem |-> <<"s", "u", "b", "p", "r", "o", "b", "l", "e", "m">>,
     tree |-> <<"t", "r", "e", "e">>,
     node |-> <<"n", "o", "d", "e">>,
     root |-> <<"r", "o", "o", "t">>,
     dfs |-> <<"d", "f", "s">>,
     bfs |-> <<"b", "f", "s">>,
     preorder |-> <<"p", "r", "e", "o", "r", "d", "e", "r">>,
     inorder |-> <<"i", "n", "o", "r", "d", "e", "r">>,
     postorder |-> <<"p", "o", "s", "t", "o", "r", "d", "e", "r">>,
     slashslash |-> <<"/", "/">>,
     slash |-> <<"/">>,
     shift |-> <<">", ">">>,
     plusplus |-> <<"+", "+">>,
     minusminus |-> <<"-", "-">>,
     target |-> W_target]

\* score += w when cond.
Plus(cond, score, w) == IF cond THEN FAdd(score, w) ELSE score

\* (code.match(/for/g) || []).length: two occurrences of "for" never
\* overlap, so every occurrence is a match.
matchCount(s, lit) ==
    Cardinality({p \in 1..(Len(s) - Len(lit) + 1) : s[p] = lit[1] /\ LitAt(s, p, lit)})

\* The detectors take (code, lines) and never read lines.
\* detectBinarySearch without the weight of 'mid'
detectBinarySearchNoMid(code) ==
    LET lr == includes(code, K.left) /\ includes(code, K.right)
        s1 == Plus(lr, F0_0, F0_3)
        s3 == Plus(includes(code, K.while) /\ lr, s1, F0_2)
        s4 == Plus(includes(code, K.slashslash) \/ includes(code, K.slash)
                   \/ includes(code, K.shift), s3, F0_1)
        s5 == Plus(includes(code, K.binary) \/ includes(code, K.search), s4, F0_2)
        s6 == Plus(includes(code, K.sorted) \/ includes(code, K.ascending), s5, F0_1)
    IN  FMin(s6, F1_0)

detectBinarySearch(code) ==
    LET lr == includes(code, K.left) /\ includes(code, K.right)
        s1 == Plus(lr, F0_0, F0_3)
        s2 == Plus(includes(code, K.mid) \/ includes(code, K.middle), s1, F0_4)
        s3 == Plus(includes(code, K.while) /\ lr, s2, F0_2)
        s4 == Plus(includes(code, K.slashslash) \/ includes(code, K.slash)
                   \/ includes(code, K.shift), s3, F0_1)
        s5 == Plus(includes(code, K.binary) \/ includes(code, K.search), s4, F0_2)
        s6 == Plus(includes(code, K.sorted) \/ includes(code, K.ascending), s5, F0_1)
    IN  FMin(s6, F1_0)

\* detectTwoPointers without Math.max(score, 0)
detectTwoPointersUnclamped(code) ==
    LET s1 == Plus(includes(code, K.left) /\ includes(code, K.right), F0_0, F0_3)
        s2 == Plus(includes(code, K.plusplus) \/ includes(code, K.minusminus), s1, F0_2)
        s3 == Plus(includes(code, K.while) /\ ~includes(code, K.mid), s2, F0_2)
        s4 == Plus(includes(code, K.sum) \/ includes(code, K.target), s3, F0_2)
    IN  IF includes(code, K.mid) THEN FSub(s4, F0_4) ELSE s4

\* detectTwoPointers without the penalty for mid
detectTwoPointersNoPenalty(code) ==
    LET s1 == Plus(includes(code, K.left) /\ includes(code, K.right), F0_0, F0_3)
        s2 == Plus(includes(code, K.plusplus) \/ includes(code, K.minusminus), s1, F0_2)
        s3 == Plus(includes(code, K.while) /\ ~includes(code, K.mid), s2, F0_2)
        s4 == Plus(includes(code, K.sum) \/ includes(code, K.target), s3, F0_2)
    IN  FMax(s4, F0_0)

detectTwoPointers(code) ==
    LET s1 == Plus(includes(code, K.left) /\ includes(code, K.right), F0_0, F0_3)
        s2 == Plus(includes(code, K.plusplus) \/ includes(code, K.minusminus), s1, F0_2)
        s3 == Plus(includes(code, K.while) /\ ~includes(code, K.mid), s2, F0_2)
        s4 == Plus(includes(code, K.sum) \/ includes(code, K.target), s3, F0_2)
        \* Penalty if it looks more like binary search
        s5 == IF includes(code, K.mid) THEN FSub(s4, F0_4) ELSE s4
    IN  FMax(s5, F0_0)

detectSlidingWindow(code) ==
    LET s1 == Plus(includes(code, K.window), F0_0, F0_4)
        s2 == Plus(includes(code, K.start) /\ includes(code, K.end), s1, F0_3)
        s3 == Plus(includes(code, K.substring) \/ includes(code, K.subarray), s2, F0_2)
        s4 == Plus(includes(code, K.expand) \/ includes(code, K.contract), s3, F0_2)
    IN  FMin(s4, F1_0)

detectSorting(code) ==
    LET s1 == Plus(includes(code, K.sort), F0_0, F0_4)
        s2 == Plus(includes(code, K.swap), s1, F0_3)
        s3 == Plus(matchCount(code, K.for) >= 2, s2, F0_3)
        s4 == Plus(includes(code, K.bubble) \/ includes(code, K.quick)
                   \/ includes(code, K.merge), s3, F0_3)
    IN  FMin(s4, F1_0)

detectDP(code) ==
    LET s1 == Plus(includes(code, K.dp) \/ includes(code, K.memo), F0_0, F0_4)
        s2 == Plus(includes(code, K.cache) \/ includes(code, K.memoization), s1, F0_3)
        s3 == Plus(includes(code, K.dynamic) \/ includes(code, K.programming), s2, F0_2)
        s4 == Plus(includes(code, K.optimal) \/ includes(code, K.subproblem), s3, F0_2)
    IN  FMin(s4, F1_0)

detectTreeTraversal(code) ==
    LET s1 == Plus(includes(code, K.tree) \/ includes(code, K.node), F0_0, F0_3)
        s2 == Plus(includes(code, K.left) /\ includes(code, K.right)
                   /\ includes(code, K.root), s1, F0_4)
        s3 == Plus(includes(code, K.dfs) \/ includes(code, K.bfs), s2, F0_3)
        s4 == Plus(includes(code, K.preorder) \/ includes(code, K.inorder)
                   \/ includes(code, K.postorder), s3, F0_2)
    IN  FMin(s4, F1_0)

\* the comparator (a, b) => b.score - a.score
compareFn(a, b) == FSub(b.score, a.score)
FPositive(x) == FLess(F0_0, x)

\* a sort that puts the later of two elements that tie first
sortTiesReversed(seq) ==
    LET before(i) ==
            {j \in 1..Len(seq) :
                \/ FPositive(compareFn(seq[i], seq[j]))
                \/ j > i /\ compareFn(seq[i], seq[j]) = F0_0}
    IN  [p \in 1..Len(seq) |->
            seq[CHOOSE i \in 1..Len(seq) : Cardinality(before(i)) = p - 1]]

\* Array.prototype.sort is stable: element i comes after every element the
\* comparator puts before it, and after the earlier elements it ties with.
sort(seq) ==
    LET before(i) ==
            {j \in 1..Len(seq) :
                \/ FPositive(compareFn(seq[i], seq[j]))
                \/ j < i /\ compareFn(seq[i], seq[j]) = F0_0}
    IN  [p \in 1..Len(seq) |->
            seq[CHOOSE i \in 1..Len(seq) : Cardinality(before(i)) = p - 1]]

\* detectionResults before the sort, in the order of the source.
detectionResults(lowerCode) ==
    << [name |-> "Binary Search", score |-> detectBinarySearch(lowerCode)],
       [name |-> "Two Pointers", score |-> detectTwoPointers(lowerCode)],
       [name |-> "Sliding Window", score |-> detectSlidingWindow(lowerCode)],
       [name |-> "Sorting Algorithm", score |-> detectSorting(lowerCode)],
       [name |-> "Dynamic Programming", score |-> detectDP(lowerCode)],
       [name |-> "Tree Traversal", score |-> detectTreeTraversal(lowerCode)] >>

\* detectionResults after detectionResults.sort(...)
sortedResults(code) ==
    LET lowerCode == toLowerCase(code)
        results == detectionResults(lowerCode)
    IN  sort(results)

Threshold == F0_3

\* detectAlgorithm were the test bestMatch.score >= 0.3
detectAlgorithmAtLeast(code) ==
    LET bestMatch == sortedResults(code)[1]
    IN  IF ~FLess(bestMatch.score, Threshold) THEN bestMatch.name
        ELSE "Unknown Algorithm"

detectAlgorithm(code) ==
    LET bestMatch == sortedResults(code)[1]
    IN  IF FLess(Threshold, bestMatch.score) THEN bestMatch.name
        ELSE "Unknown Algorithm"

(***************************************************************************)
(* Trace synthesizer: generateVisualizationSteps and its helpers           *)
(***************************************************************************)
StepCap == 10

\* the loop condition without the cap
loopConditionUncapped(l, r, count) == l <= r
\* the loop condition with the cap one lower
loopConditionCappedEarlier(l, r, count) == l <= r /\ count < StepCap - 1
\* while (left <= right && stepCount < 10)
loopCondition(l, r, count) == l <= r /\ count < StepCap
\* Math.ceil((left + right) / 2)
midOfCeiling(l, r) == (l + r + 1) \div 2
\* Math.floor((left + right) / 2)
midOf(l, r) == (l + r) \div 2
\* parsedData.arrays.length > 0 ? parsedData.arrays[0] : [1, 3, 5, 7, 9, 11]
arrayOf(data) ==
    IF Len(data.arrays) > 0 THEN data.arrays[1]
    ELSE <<Num(1), Num(3), Num(5), Num(7), Num(9), Num(11)>>
\* parsedData.target || 7
targetOf(data) == IF Truthy(data.target) THEN data.target ELSE Num(7)

\* the first step pushed by generateBinarySearchSteps
initialStep(arr, tgt, l, r) ==
    [type |-> "binary_search",
     description |-> [text |-> "Starting Binary Search for target", target |-> tgt],
     array |-> arr, target |-> tgt, left |-> l, right |-> r,
     mid |-> JSNull, found |-> FALSE,
     explanation |-> [text |-> "Initialize", left |-> l, right |-> r, array |-> arr]]
\* the comparison step were stepCount counted from 0
compareStepFromZero(arr, tgt, l, r, m, count) ==
    [type |-> "binary_search",
     description |-> [text |-> "Step: Calculate mid", step |-> count - 1, mid |-> m],
     array |-> arr, target |-> tgt, left |-> l, right |-> r,
     mid |-> Num(m), found |-> FALSE,
     explanation |-> [text |-> "Mid index, value, comparing", mid |-> m,
                      value |-> arr[m + 1], target |-> tgt]]
\* the step pushed at the top of the loop body; array[mid] is arr[m + 1] here
compareStep(arr, tgt, l, r, m, count) ==
    [type |-> "binary_search",
     description |-> [text |-> "Step: Calculate mid", step |-> count, mid |-> m],
     array |-> arr, target |-> tgt, left |-> l, right |-> r,
     mid |-> Num(m), found |-> FALSE,
     explanation |-> [text |-> "Mid index, value, comparing", mid |-> m,
                      value |-> arr[m + 1], target |-> tgt]]
\* the found step were it to record left where mid belongs
foundStepAtLeft(arr, tgt, l, r, m) ==
    [type |-> "binary_search",
     description |-> [text |-> "Found target at index", target |-> tgt, mid |-> l],
     array |-> arr, target |-> tgt, left |-> l, right |-> r,
     mid |-> Num(l), found |-> TRUE,
     explanation |-> [text |-> "Success", target |-> tgt, mid |-> l]]
\* the step pushed when array[mid] === target
foundStep(arr, tgt, l, r, m) ==
    [type |-> "binary_search",
     description |-> [text |-> "Found target at index", target |-> tgt, mid |-> m],
     array |-> arr, target |-> tgt, left |-> l, right |-> r,
     mid |-> Num(m), found |-> TRUE,
     explanation |-> [text |-> "Success", target |-> tgt, mid |-> m]]
\* generateTwoPointersSteps were it to default the target as the binary search
generateTwoPointersStepsDefaulting(data) ==
    << [type |-> "two_pointers",
        description |-> [text |-> "Two Pointers algorithm detected"],
        data |-> [data EXCEPT !.target = targetOf(data)],
        explanation |-> [text |-> "Two Pointers visualization will be implemented soon!"]] >>
\* the steps generateTwoPointersSteps returns
generateTwoPointersSteps(data) ==
    << [type |-> "two_pointers",
        description |-> [text |-> "Two Pointers algorithm detected"],
        data |-> data,
        explanation |-> [text |-> "Two Pointers visualization will be implemented soon!"]] >>
\* the steps generateVisualizationSteps returns for any other algorithm
simpleSteps(alg, data) ==
    << [type |-> "simple",
        description |-> [text |-> "visualization coming soon!", algorithm |-> alg],
        data |-> data] >>

(***************************************************************************)
(* State                                                                   *)
(***************************************************************************)
VARIABLES
    \* a call of parseCodeInput: its arguments, its position, its result
    code, customArray, customTarget, epc, parseResult,
    \* how code and customArray were put together (history variables)
    codeFrags, arrayToks,
    \* a call of detectAlgorithm: its argument, its position,
    \* detectionResults after the sort, and the name returned
    text, textWords, cpc, detected, label,
    \* a call of generateVisualizationSteps: its arguments, its position, and
    \* the locals of generateBinarySearchSteps
    algorithm, parsedData, pc, array, target, left, right, stepCount, steps,
    \* the state of the App component, and the position of handleAnalyze
    appCode, analysis, isAnalyzing, error, currentStep, isPlaying, apc,
    \* the calls that have returned: function, arguments, result (history)
    calls,
    \* the AlgorithmVisualizer component: the length of its steps prop, its
    \* currentStep prop, its state, the intervals that are running (id and
    \* period), the delayed calls of handlePlay that are pending (the
    \* currentStep and animationSpeed their closure holds), and whether the
    \* user's last request among Play, Pause and Reset was not Play (history)
    stepsLength, stepShown, playing, playInterval, animationSpeed, timers,
    pending, stopped

extractVars == <<code, customArray, customTarget, epc, parseResult, codeFrags, arrayToks>>
classifyVars == <<text, textWords, cpc, detected, label>>
synthVars == <<algorithm, parsedData, pc, array, target, left, right, stepCount, steps>>
appVars == <<appCode, analysis, isAnalyzing, error, currentStep, isPlaying, apc>>
callVars == <<calls>>
visVars == <<stepsLength, stepShown, playing, playInterval, animationSpeed, timers,
             pending, stopped>>
vars == <<extractVars, classifyVars, synthVars, appVars, callVars, visVars>>

\* the variables of a component no call of which is under way
ExtractIdle ==
    /\ code = Str(<<>>) /\ customArray = JSUndefined /\ customTarget = JSUndefined
    /\ epc = "idle" /\ parseResult = JSUndefined
    /\ codeFrags = <<>> /\ arrayToks = <<>>
ClassifyIdle ==
    /\ text = <<>> /\ textWords = {} /\ cpc = "idle"
    /\ detected = <<>> /\ label = ""
SynthIdle ==
    /\ algorithm = "" /\ parsedData = JSUndefined /\ pc = "idle"
    /\ array = <<>> /\ target = JSUndefined /\ left = 0 /\ right = 0
    /\ stepCount = 0 /\ steps = <<>>
AppIdle ==
    /\ appCode = <<>> /\ analysis = JSNull /\ isAnalyzing = FALSE
    /\ error = JSNull /\ currentStep = 0 /\ isPlaying = FALSE /\ apc = "unmounted"
VisIdle ==
    /\ stepsLength = 0 /\ stepShown = 0 /\ playing = FALSE /\ playInterval = JSNull
    /\ animationSpeed = 0 /\ timers = {} /\ pending = <<>> /\ stopped = FALSE

(***************************************************************************)
(* Calls of parseCodeInput                                                 *)
(***************************************************************************)
\* the pieces the texts are made of
Fragments ==
    << <<"a", "r", "r", " ", "=", " ", "[", "1", ",", " ", "3", ",", " ", "5", ",", " ", "7", ",", " ", "9", ",", " ", "1", "1", "]">>,
       <<"n", "u", "m", "s", "=", "[", "2", ",", "x", ",", "4", "]">>,
       <<"a", "r", "r", "a", "y", " ", "=", " ", "[", "1", "0", "]">>,
       <<"[", "1", ".", "5", ",", " ", "2", "]">>,
       <<"[", "x", "]">>,
       <<"[", "[", "8", "]", ",", "6", "]">>,
       <<"t", "a", "r", "g", "e", "t", " ", "=", " ", "7">>,
       <<"t", "a", "r", "g", "e", "t", " ", "=", " ", "0">>,
       <<"f", "i", "n", "d", "(", "3", ")">>,
       <<"s", "e", "a", "r", "c", "h", "(", "a", ",", " ", "4", ")">>,
       <<"x", " ", "=", "=", " ", "5">>,
       <<"t", "a", "r", "g", "e", "t", ":", " ", "9">>,
       <<" ", "\n">>,
       <<"a", "r", "r", " ", "=", " ", "[", "]", " ", "t", "a", "r", "g", "e", "t", " ", "=", " ", "x">> >>
\* the comma-separated tokens the explicit sequences are made of
Tokens == << <<"7">>, <<" ", "1", "2", "a">>, <<"x">>, <<>>, <<"-", "5">> >>

MaxFrags == 2
MaxToks == 2
MaxCustomTarget == 2

SeqsUpTo(S, n) == UNION {[1..k -> S] : k \in 0..n}

RECURSIVE Concat(_)
Concat(ss) == IF ss = <<>> THEN <<>> ELSE Head(ss) \o Concat(Tail(ss))
RECURSIVE Join(_)
Join(ss) ==
    IF Len(ss) = 1 THEN Head(ss) ELSE Head(ss) \o <<",">> \o Join(Tail(ss))

TextOf(fs) == Concat([i \in 1..Len(fs) |-> Fragments[fs[i]]])
ArrayStringOf(ts) == Join([i \in 1..Len(ts) |-> Tokens[ts[i]]])

FragSeqs == SeqsUpTo(1..Len(Fragments), MaxFrags)
TokSeqs == SeqsUpTo(1..Len(Tokens), MaxToks) \ {<<>>}
CustomTargets == {JSUndefined} \cup {Num(n) : n \in (-MaxCustomTarget)..MaxCustomTarget}
\* the texts the explicit sequences are tried against
SampleFragSeqs == {<<>>, <<1>>, <<4, 7>>, <<9, 2>>}
\* the initial customArray of the CodeEditor component
EditorArray ==
    <<"1", ",", "3", ",", "5", ",", "7", ",", "9", ",", "1", "1">>

\* the text alone: no explicit sequence
InitFromText ==
    /\ codeFrags \in FragSeqs
    /\ code = Str(TextOf(codeFrags))
    /\ arrayToks = <<>>
    /\ customArray = JSUndefined
    /\ customTarget \in CustomTargets
\* an explicit sequence built from tokens
InitWithArray ==
    /\ codeFrags \in SampleFragSeqs
    /\ code = Str(TextOf(codeFrags))
    /\ arrayToks \in TokSeqs
    /\ customArray = Str(ArrayStringOf(arrayToks))
    /\ customTarget \in CustomTargets
\* the arguments that are not strings, and the editor's initial sequence
InitOther ==
    /\ codeFrags \in SampleFragSeqs
    /\ code \in {Str(TextOf(codeFrags)), JSUndefined, JSNull, Num(5)}
    /\ arrayToks = <<>>
    /\ customArray \in {Str(EditorArray), Str(<<>>), Num(5), JSNull}
    /\ customTarget \in CustomTargets

InitExtract ==
    /\ InitFromText \/ InitWithArray \/ InitOther
    /\ epc = "call" /\ parseResult = JSUndefined
    /\ ClassifyIdle /\ SynthIdle /\ AppIdle /\ calls = {} /\ VisIdle

ParseCodeInput ==
    /\ epc = "call"
    /\ parseResult' = parseCodeInput(code, customArray, customTarget)
    /\ epc' = "return"
    /\ UNCHANGED <<code, customArray, customTarget, codeFrags, arrayToks>>
    /\ UNCHANGED <<classifyVars, synthVars, appVars, callVars, visVars>>

NextExtract == ParseCodeInput
SpecExtract == InitExtract /\ [][NextExtract]_vars

(***************************************************************************)
(* Calls of detectAlgorithm                                                *)
(***************************************************************************)
\* the words the texts are made of: keywords of the detectors, a line of a
\* binary search, a word in capitals and a word no detector knows
Vocabulary ==
    << <<"l", "e", "f", "t">>,
       <<"r", "i", "g", "h", "t">>,
       <<"m", "i", "d", " ", "=", " ", "(", "l", "e", "f", "t", " ", "+", " ", "r", "i", "g", "h", "t", ")", " ", "/", "/", " ", "2">>,
       <<"w", "h", "i", "l", "e">>,
       <<"/">>,
       <<"s", "e", "a", "r", "c", "h">>,
       <<"s", "o", "r", "t", "e", "d">>,
       <<"+", "+">>,
       <<"s", "u", "m">>,
       <<"w", "i", "n", "d", "o", "w">>,
       <<"s", "t", "a", "r", "t">>,
       <<"e", "n", "d">>,
       <<"s", "w", "a", "p">>,
       <<"f", "o", "r", " ", "i", " ", "f", "o", "r", " ", "j">>,
       <<"d", "p">>,
       <<"c", "a", "c", "h", "e">>,
       <<"t", "r", "e", "e">>,
       <<"r", "o", "o", "t">>,
       <<"d", "f", "s">>,
       <<"M", "I", "D", "D", "L", "E">>,
       <<"x">>,
       <<"d", "f", "s", "(", "r", "o", "o", "t", ")">> >>
MaxWords == 3

\* the words of a set of indices, in the order of the vocabulary, one blank
\* between two words
RECURSIVE WordsText(_)
WordsText(ws) ==
    IF ws = {} THEN <<>>
    ELSE LET w == CHOOSE w \in ws : \A v \in ws : w <= v
         IN  IF ws = {w} THEN Vocabulary[w]
             ELSE Vocabulary[w] \o <<" ">> \o WordsText(ws \ {w})

\* the sets of at most MaxWords words
WordSets ==
    UNION {{{f[i] : i \in 1..k} : f \in [1..k -> 1..Len(Vocabulary)]} : k \in 0..MaxWords}

InitClassify ==
    /\ textWords \in WordSets
    /\ text = WordsText(textWords)
    /\ cpc = "call" /\ detected = <<>> /\ label = ""
    /\ ExtractIdle /\ SynthIdle /\ AppIdle /\ calls = {} /\ VisIdle

DetectAlgorithm ==
    /\ cpc = "call"
    /\ detected' = sortedResults(text)
    /\ label' = detectAlgorithm(text)
    /\ cpc' = "return"
    /\ UNCHANGED <<text, textWords>>
    /\ UNCHANGED <<extractVars, synthVars, appVars, callVars, visVars>>

NextClassify == DetectAlgorithm
SpecClassify == InitClassify /\ [][NextClassify]_vars

(***************************************************************************)
(* Calls of generateVisualizationSteps                                     *)
(***************************************************************************)
\* generateVisualizationSteps, any algorithm but the two below: lines 10-14
GenerateSimple ==
    /\ pc = "call"
    /\ algorithm \notin {"Binary Search", "Two Pointers"}
    /\ steps' = simpleSteps(algorithm, parsedData)
    /\ pc' = "return"
    /\ UNCHANGED <<algorithm, parsedData, array, target, left, right, stepCount>>
    /\ UNCHANGED <<extractVars, classifyVars, appVars, callVars, visVars>>

\* generateVisualizationSteps, 'Two Pointers': lines 6-7
GenerateTwoPointers ==
    /\ pc = "call"
    /\ algorithm = "Two Pointers"
    /\ steps' = generateTwoPointersSteps(parsedData)
    /\ pc' = "return"
    /\ UNCHANGED <<algorithm, parsedData, array, target, left, right, stepCount>>
    /\ UNCHANGED <<extractVars, classifyVars, appVars, callVars, visVars>>

\* generateBinarySearchSteps were steps an array that outlives the call
BinarySearchStartKeepingSteps ==
    /\ pc = "call"
    /\ algorithm = "Binary Search"
    /\ array' = arrayOf(parsedData)
    /\ target' = targetOf(parsedData)
    /\ left' = 0
    /\ right' = Len(array') - 1
    /\ steps' = Append(steps, initialStep(array', target', left', right'))
    /\ stepCount' = 1
    /\ pc' = "loop"
    /\ UNCHANGED <<algorithm, parsedData>>
    /\ UNCHANGED <<extractVars, classifyVars, appVars, callVars, visVars>>

\* generateBinarySearchSteps up to the loop: lines 18-37
BinarySearchStart ==
    /\ pc = "call"
    /\ algorithm = "Binary Search"
    /\ array' = arrayOf(parsedData)
    /\ target' = targetOf(parsedData)
    /\ left' = 0
    /\ right' = Len(array') - 1
    /\ steps' = <<initialStep(array', target', left', right')>>
    /\ stepCount' = 1
    /\ pc' = "loop"
    /\ UNCHANGED <<algorithm, parsedData>>
    /\ UNCHANGED <<extractVars, classifyVars, appVars, callVars, visVars>>

\* the iteration were right to become mid, not mid - 1
BinarySearchIterateRightAtMid ==
    /\ pc = "loop"
    /\ loopCondition(left, right, stepCount)
    /\ LET mid == midOf(left, right)
           compared == Append(steps, compareStep(array, target, left, right, mid, stepCount))
       IN  IF StrictEq(array[mid + 1], target)
           THEN /\ steps' = Append(compared, foundStep(array, target, left, right, mid))
                /\ pc' = "return"
                /\ UNCHANGED <<left, right, stepCount>>
           ELSE /\ steps' = compared
                /\ IF NumLess(array[mid + 1], target)
                   THEN left' = mid + 1 /\ right' = right
                   ELSE right' = mid /\ left' = left
                /\ stepCount' = stepCount + 1
                /\ pc' = "loop"
    /\ UNCHANGED <<algorithm, parsedData, array, target>>
    /\ UNCHANGED <<extractVars, classifyVars, appVars, callVars, visVars>>

\* the iteration were left to become mid, not mid + 1
BinarySearchIterateLeftAtMid ==
    /\ pc = "loop"
    /\ loopCondition(left, right, stepCount)
    /\ LET mid == midOf(left, right)
           compared == Append(steps, compareStep(array, target, left, right, mid, stepCount))
       IN  IF StrictEq(array[mid + 1], target)
           THEN /\ steps' = Append(compared, foundStep(array, target, left, right, mid))
                /\ pc' = "return"
                /\ UNCHANGED <<left, right, stepCount>>
           ELSE /\ steps' = compared
                /\ IF NumLess(array[mid + 1], target)
                   THEN left' = mid /\ right' = right
                   ELSE right' = mid - 1 /\ left' = left
                /\ stepCount' = stepCount + 1
                /\ pc' = "loop"
    /\ UNCHANGED <<algorithm, parsedData, array, target>>
    /\ UNCHANGED <<extractVars, classifyVars, appVars, callVars, visVars>>

\* one iteration of the loop: lines 38-72
BinarySearchIterate ==
    /\ pc = "loop"
    /\ loopCondition(left, right, stepCount)
    /\ LET mid == midOf(left, right)
           compared == Append(steps, compareStep(array, target, left, right, mid, stepCount))
       IN  IF StrictEq(array[mid + 1], target)
           THEN /\ steps' = Append(compared, foundStep(array, target, left, right, mid))
                /\ pc' = "return"
                /\ UNCHANGED <<left, right, stepCount>>
           ELSE /\ steps' = compared
                /\ IF NumLess(array[mid + 1], target)
                   THEN left' = mid + 1 /\ right' = right
                   ELSE right' = mid - 1 /\ left' = left
                /\ stepCount' = stepCount + 1
                /\ pc' = "loop"
    /\ UNCHANGED <<algorithm, parsedData, array, target>>
    /\ UNCHANGED <<extractVars, classifyVars, appVars, callVars, visVars>>

\* the loop condition fails: return steps, line 74
BinarySearchReturn ==
    /\ pc = "loop"
    /\ ~loopCondition(left, right, stepCount)
    /\ pc' = "return"
    /\ UNCHANGED <<algorithm, parsedData, array, target, left, right, stepCount, steps>>
    /\ UNCHANGED <<extractVars, classifyVars, appVars, callVars, visVars>>

\* the arguments of the calls
Algorithms ==
    {"Binary Search", "Two Pointers", "Sliding Window", "Sorting Algorithm",
     "Dynamic Programming", "Tree Traversal", "Unknown Algorithm", "Heap Sort"}
MaxLen == 3
MaxValue == 3
BigLen == 512
\* the odd numbers 1, 3, ..., 2n - 1
Ascending(n) == [i \in 1..n |-> Num(2 * i - 1)]
SmallArrays == SeqsUpTo({Num(2 * v - 1) : v \in 1..MaxValue}, MaxLen)
ScenarioArray == Ascending(6)
SmallTargets == {JSNull} \cup {Num(t) : t \in 0..(2 * MaxValue + 1)}
BigArrays == {Ascending(BigLen - 1), Ascending(BigLen)}
\* every element of the longer of these arrays, and two numbers that are
\* in neither
BigTargets == {Num(2 * i - 1) : i \in 1..BigLen} \cup {Num(2), Num(2 * BigLen + 1)}

InitSynth ==
    /\ \/ /\ algorithm \in Algorithms
          /\ \E a \in SmallArrays, t \in SmallTargets :
                parsedData \in {[arrays |-> <<a>>, target |-> t],
                                [arrays |-> <<a, ScenarioArray>>, target |-> t]}
       \/ /\ algorithm \in Algorithms
          /\ \E t \in SmallTargets \cup {Num(100)} :
                parsedData \in {[arrays |-> <<>>, target |-> t],
                                [arrays |-> <<ScenarioArray>>, target |-> t],
                                [arrays |-> <<DefaultArray>>, target |-> t]}
       \/ /\ algorithm = "Binary Search"
          /\ \E a \in BigArrays, t \in BigTargets :
                parsedData = [arrays |-> <<a>>, target |-> t]
    /\ pc = "call"
    /\ array = <<>> /\ target = JSUndefined /\ left = 0 /\ right = 0
    /\ stepCount = 0 /\ steps = <<>>
    /\ ExtractIdle /\ ClassifyIdle /\ AppIdle /\ calls = {} /\ VisIdle

NextSynth ==
    \/ GenerateSimple
    \/ GenerateTwoPointers
    \/ BinarySearchStart
    \/ BinarySearchIterate
    \/ BinarySearchReturn
SpecSynth == InitSynth /\ [][NextSynth]_vars

(***************************************************************************)
(* Calls of the three functions one after another. JavaScript runs each    *)
(* call to its end before the next begins; the variables of a call keep    *)
(* the values the call before left in them until the call sets them.       *)
(***************************************************************************)
InitCalls == ExtractIdle /\ ClassifyIdle /\ SynthIdle /\ AppIdle /\ calls = {} /\ VisIdle

\* a call begins when none is under way: its arguments are set, its other
\* variables are as the call before left them
Call ==
    /\ epc = "idle" /\ cpc = "idle" /\ pc = "idle"
    /\ \/ /\ \E a \in {[frags |-> <<1, 7>>, code |-> Str(TextOf(<<1, 7>>)),
                        customArray |-> JSUndefined, customTarget |-> JSUndefined],
                       [frags |-> <<>>, code |-> JSUndefined,
                        customArray |-> Str(EditorArray), customTarget |-> Num(0)]} :
                /\ code' = a.code /\ customArray' = a.customArray
                /\ customTarget' = a.customTarget /\ codeFrags' = a.frags
          /\ epc' = "call"
          /\ UNCHANGED <<parseResult, arrayToks, classifyVars, synthVars>>
       \/ /\ \E ws \in {{3, 4}, {7, 10}} : textWords' = ws /\ text' = WordsText(ws)
          /\ cpc' = "call"
          /\ UNCHANGED <<detected, label, extractVars, synthVars>>
       \/ /\ \E a \in {"Binary Search", "Two Pointers", "Sorting Algorithm"},
                t \in {0, 7, 100} :
                /\ a # "Binary Search" => t = 7
                /\ algorithm' = a
                /\ parsedData' = [arrays |-> <<ScenarioArray>>, target |-> Num(t)]
          /\ pc' = "call"
          /\ UNCHANGED <<array, target, left, right, stepCount, steps>>
          /\ UNCHANGED <<extractVars, classifyVars>>
    /\ UNCHANGED <<appVars, callVars, visVars>>

\* the call under way has returned: its arguments and result are recorded
Return ==
    /\ \/ /\ epc = "return"
          /\ calls' = calls \cup {[fn |-> "parseCodeInput",
                                   args |-> <<code, customArray, customTarget>>,
                                   result |-> parseResult]}
          /\ epc' = "idle"
          /\ UNCHANGED <<code, customArray, customTarget, parseResult, codeFrags, arrayToks>>
          /\ UNCHANGED <<classifyVars, synthVars>>
       \/ /\ cpc = "return"
          /\ calls' = calls \cup {[fn |-> "detectAlgorithm", args |-> <<text>>,
                                   result |-> label]}
          /\ cpc' = "idle"
          /\ UNCHANGED <<text, textWords, detected, label>>
          /\ UNCHANGED <<extractVars, synthVars>>
       \/ /\ pc = "return"
          /\ calls' = calls \cup {[fn |-> "generateVisualizationSteps",
                                   args |-> <<algorithm, parsedData>>,
                                   result |-> steps]}
          /\ pc' = "idle"
          /\ UNCHANGED <<algorithm, parsedData, array, target, left, right, stepCount, steps>>
          /\ UNCHANGED <<extractVars, classifyVars>>
    /\ UNCHANGED <<appVars, visVars>>

NextCalls ==
    \/ Call
    \/ ParseCodeInput
    \/ DetectAlgorithm
    \/ GenerateSimple
    \/ GenerateTwoPointers
    \/ BinarySearchStart
    \/ BinarySearchIterate
    \/ BinarySearchReturn
    \/ Return
SpecCalls == InitCalls /\ [][NextCalls]_vars

(***************************************************************************)
(* MLAnalysisService (analyzeCode, transformResponse) and the App          *)
(* component (frontend/src/App.js)                                         *)
(***************************************************************************)
\* the string literals of the service
S ==
    [BINARY_SEARCH |-> <<"B", "I", "N", "A", "R", "Y", "_", "S", "E", "A", "R", "C", "H">>,
     TWO_POINTERS |-> <<"T", "W", "O", "_", "P", "O", "I", "N", "T", "E", "R", "S">>,
     HASH_MAP |-> <<"H", "A", "S", "H", "_", "M", "A", "P">>,
     UNKNOWN |-> <<"U", "N", "K", "N", "O", "W", "N">>,
     BinarySearch |-> <<"B", "i", "n", "a", "r", "y", " ", "S", "e", "a", "r", "c", "h">>,
     TwoPointers |-> <<"T", "w", "o", " ", "P", "o", "i", "n", "t", "e", "r", "s">>,
     HashMap |-> <<"H", "a", "s", "h", " ", "M", "a", "p">>,
     Binary |-> <<"B", "i", "n", "a", "r", "y">>]

JSObject(fields) == [type |-> "object", fields |-> fields]
JSArray(items) == [type |-> "array", items |-> items]
\* a || b
OrElse(a, b) == IF Truthy(a) THEN a ELSE b

\* pattern.replace(/_/g, ' ')
replaceUnderscores(s) == [i \in 1..Len(s) |-> IF s[i] = "_" THEN " " ELSE s[i]]
\* names[pattern] || pattern?.replace(/_/g, ' ') || 'Unknown Algorithm'
formatAlgorithmName(pattern) ==
    CASE pattern = S.TWO_POINTERS -> Str(S.TwoPointers)
      [] pattern = S.BINARY_SEARCH -> Str(S.BinarySearch)
      [] pattern = S.HASH_MAP -> Str(S.HashMap)
      [] OTHER -> Str(replaceUnderscores(pattern))

\* the values of left, right and mid in a step's variables
NoVariables == [left |-> JSUndefined, right |-> JSUndefined, mid |-> JSUndefined]
extractPointers(variables, algorithmType) ==
    IF includes(algorithmType, S.TwoPointers) \/ includes(algorithmType, S.Binary)
    THEN variables
    ELSE NoVariables

\* transformResponse: the fields of the result the App component reads
\* (algorithm, executionSteps with stepNumber, variablesAfter and
\* visualizationData.pointers, complexity)
transformResponse(mlResponse) ==
    LET parsed == OrElse(mlResponse.fields.algorithm_analysis, mlResponse).fields
        algorithmType == OrElse(parsed.primary_pattern, Str(S.UNKNOWN)).str
        steps0 == OrElse(parsed.execution_steps, JSArray(<<>>)).items
        variablesOf(step) ==
            IF step.variables_after = JSUndefined THEN NoVariables
            ELSE step.variables_after
    IN  [algorithm |->
            [type |-> Str(algorithmType),
             name |-> formatAlgorithmName(algorithmType),
             confidence |-> OrElse(parsed.confidence_score, Dec(8, 1))],
         executionSteps |->
            [index \in 1..Len(steps0) |->
                [stepNumber |-> OrElse(steps0[index].step_number, Num(index)),
                 variablesAfter |-> variablesOf(steps0[index]),
                 pointers |-> extractPointers(variablesOf(steps0[index]), algorithmType)]],
         complexity |->
            OrElse(parsed.complexity_analysis,
                   JSObject([time |-> "O(n)", space |-> "O(1)"]))]

\* What the request of analyzeCode comes to: fetch rejects, the response is
\* not ok, response.json() rejects, or the body is parsed.
MLStep(n, l, r, m) ==
    [step_number |-> n, variables_after |-> [left |-> l, right |-> r, mid |-> m]]
MLAnalysis(pattern, steps0, score) ==
    [algorithm_analysis |-> JSUndefined, primary_pattern |-> pattern,
     execution_steps |-> steps0, confidence_score |-> score,
     complexity_analysis |-> JSUndefined]
MaxSteps == 3
MLSteps(n) ==
    [i \in 1..n |->
        IF i = 1 THEN MLStep(JSUndefined, Num(0), Num(5), JSUndefined)
        ELSE IF i = 2 THEN MLStep(Num(2), Num(0), Num(5), Num(2))
        ELSE [step_number |-> Num(i), variables_after |-> JSUndefined]]
Bodies ==
    {JSObject(MLAnalysis(Str(p), JSArray(MLSteps(n)), Dec(9, 1))) :
        p \in {S.BINARY_SEARCH, S.TWO_POINTERS, S.HASH_MAP}, n \in 0..MaxSteps}
    \cup {JSObject(MLAnalysis(JSUndefined, JSUndefined, JSUndefined)),
          JSObject([MLAnalysis(JSUndefined, JSUndefined, JSUndefined) EXCEPT
                      !.algorithm_analysis =
                          JSObject(MLAnalysis(Str(S.BINARY_SEARCH), JSArray(MLSteps(2)),
                                              JSUndefined))]),
          JSNull}
HttpErrors == {404, 500, 503}
Outcomes ==
    {[kind |-> "fetch rejects"], [kind |-> "json rejects"]}
    \cup {[kind |-> "not ok", status |-> st] : st \in HttpErrors}
    \cup {[kind |-> "ok", body |-> b] : b \in Bodies}

\* analyzeCode: what the promise settles to. Every failure inside the try
\* is thrown again as Error(`Analysis failed: ${error.message}`); reading a
\* property of a null body is one of them.
analyzeCode(outcome) ==
    CASE outcome.kind = "ok" /\ outcome.body # JSNull ->
            [settled |-> "resolved", value |-> transformResponse(outcome.body)]
      [] outcome.kind = "ok" /\ outcome.body = JSNull ->
            [settled |-> "rejected",
             message |-> [text |-> "Analysis failed: ", cause |-> "TypeError"]]
      [] outcome.kind = "not ok" ->
            [settled |-> "rejected",
             message |-> [text |-> "Analysis failed: HTTP: Analysis service unavailable",
                          cause |-> outcome.status]]
      [] OTHER ->
            [settled |-> "rejected",
             message |-> [text |-> "Analysis failed: ", cause |-> outcome.kind]]

\* the initial code of the editor
DefaultCode ==
    <<"d", "e", "f", " ", "t", "w", "o", "S", "u", "m", "(", "n", "u", "m",
      "s", ",", " ", "t", "a", "r", "g", "e", "t", ")", ":", "\n", " ",
      " ", " ", " ", "l", "e", "f", "t", ",", " ", "r", "i", "g", "h", "t",
      " ", "=", " ", "0", ",", " ", "l", "e", "n", "(", "n", "u", "m", "s",
      ")", " ", "-", " ", "1", "\n", " ", " ", " ", " ", "\n", " ", " ",
      " ", " ", "w", "h", "i", "l", "e", " ", "l", "e", "f", "t", " ", "<",
      " ", "r", "i", "g", "h", "t", ":", "\n", " ", " ", " ", " ", " ",
      " ", " ", " ", "c", "u", "r", "r", "e", "n", "t", "_", "s", "u", "m",
      " ", "=", " ", "n", "u", "m", "s", "[", "l", "e", "f", "t", "]", " ",
      "+", " ", "n", "u", "m", "s", "[", "r", "i", "g", "h", "t", "]",
      "\n", " ", " ", " ", " ", " ", " ", " ", " ", "i", "f", " ", "c",
      "u", "r", "r", "e", "n", "t", "_", "s", "u", "m", " ", "=", "=", " ",
      "t", "a", "r", "g", "e", "t", ":", "\n", " ", " ", " ", " ", " ",
      " ", " ", " ", " ", " ", " ", " ", "r", "e", "t", "u", "r", "n", " ",
      "[", "l", "e", "f", "t", ",", " ", "r", "i", "g", "h", "t", "]",
      "\n", " ", " ", " ", " ", " ", " ", " ", " ", "e", "l", "i", "f",
      " ", "c", "u", "r", "r", "e", "n", "t", "_", "s", "u", "m", " ", "<",
      " ", "t", "a", "r", "g", "e", "t", ":", "\n", " ", " ", " ", " ",
      " ", " ", " ", " ", " ", " ", " ", " ", "l", "e", "f", "t", " ", "+",
      "=", " ", "1", "\n", " ", " ", " ", " ", " ", " ", " ", " ", "e",
      "l", "s", "e", ":", "\n", " ", " ", " ", " ", " ", " ", " ", " ",
      " ", " ", " ", " ", "r", "i", "g", "h", "t", " ", "-", "=", " ", "1",
      "\n", " ", " ", " ", " ", "\n", " ", " ", " ", " ", "r", "e", "t",
      "u", "r", "n", " ", "[", "]">>
BlankMessage == [text |-> "Please enter some code to analyze", cause |-> "blank"]
AppCodes ==
    {DefaultCode, <<>>, <<" ", "\n">>, <<"x">>}

\* the number of steps of the analysis loaded, 0 when none is
StepsLength == IF analysis = JSNull THEN 0 ELSE Len(analysis.executionSteps)

InitApp ==
    /\ appCode = DefaultCode
    /\ analysis = JSNull /\ isAnalyzing = FALSE /\ error = JSNull
    /\ currentStep = 0 /\ isPlaying = FALSE
    /\ apc = "idle"
    /\ ExtractIdle /\ ClassifyIdle /\ SynthIdle /\ calls = {} /\ VisIdle

\* the editor's onChange: setCode
SetCode ==
    /\ \E c \in AppCodes : c # appCode /\ appCode' = c
    /\ UNCHANGED <<analysis, isAnalyzing, error, currentStep, isPlaying, apc>>
    /\ UNCHANGED <<extractVars, classifyVars, synthVars, callVars, visVars>>

\* handleAnalyze with blank code: lines 71-74. The button is disabled
\* while isAnalyzing.
HandleAnalyzeBlank ==
    /\ ~isAnalyzing
    /\ trim(appCode) = <<>>
    /\ error' = BlankMessage
    /\ UNCHANGED <<appCode, analysis, isAnalyzing, currentStep, isPlaying, apc>>
    /\ UNCHANGED <<extractVars, classifyVars, synthVars, callVars, visVars>>

\* handleAnalyze up to the await: lines 76-81
HandleAnalyzeCall ==
    /\ ~isAnalyzing
    /\ trim(appCode) # <<>>
    /\ isAnalyzing' = TRUE
    /\ error' = JSNull
    /\ analysis' = JSNull
    /\ apc' = "await"
    /\ UNCHANGED <<appCode, currentStep, isPlaying>>
    /\ UNCHANGED <<extractVars, classifyVars, synthVars, callVars, visVars>>

\* handleAnalyze after the await: lines 82-90
HandleAnalyzeSettled ==
    /\ apc = "await"
    /\ \E outcome \in Outcomes :
          LET result == analyzeCode(outcome)
          IN  IF result.settled = "resolved"
              THEN /\ analysis' = result.value
                   /\ currentStep' = 0
                   /\ isPlaying' = FALSE
                   /\ UNCHANGED error
              ELSE /\ error' = result.message
                   /\ UNCHANGED <<analysis, currentStep, isPlaying>>
    /\ isAnalyzing' = FALSE
    /\ apc' = "idle"
    /\ UNCHANGED appCode
    /\ UNCHANGED <<extractVars, classifyVars, synthVars, callVars, visVars>>

\* the dismiss button of the error message: setError(null)
DismissError ==
    /\ error # JSNull
    /\ error' = JSNull
    /\ UNCHANGED <<appCode, analysis, isAnalyzing, currentStep, isPlaying, apc>>
    /\ UNCHANGED <<extractVars, classifyVars, synthVars, callVars, visVars>>

\* the offsets handleStepChange is called with: -1 (previous), 1 (next),
\* totalSteps - 1 - currentStep (jump to end), and any other integer a
\* caller may pass
Directions == (-MaxSteps - 1)..(MaxSteps + 1)
\* Math.max(a, x): the upper limit were left out
MaxOnly(a, b, x) == IF x > a THEN x ELSE a
\* Math.max(a, Math.min(b, x)): the maximum is taken last
MaxMin(a, b, x) == LET inner == IF x < b THEN x ELSE b IN IF inner > a THEN inner ELSE a

\* handleStepChange(direction): lines 93-100
HandleStepChange ==
    /\ StepsLength > 0
    /\ \E direction \in Directions :
          currentStep' = MaxMin(0, StepsLength - 1, currentStep + direction)
    /\ UNCHANGED <<appCode, analysis, isAnalyzing, error, isPlaying, apc>>
    /\ UNCHANGED <<extractVars, classifyVars, synthVars, callVars, visVars>>

\* the controls are rendered only while an analysis is loaded, and the
\* play/pause button only when it has steps; the button calls onPlay while
\* isPlaying is false and onPause while it is true (PlaybackControls.jsx
\* keeps it enabled at the last step, PlaybackControls.js disables it there)
HandlePlay ==
    /\ StepsLength >= 1
    /\ ~isPlaying
    /\ isPlaying' = TRUE
    /\ UNCHANGED <<appCode, analysis, isAnalyzing, error, currentStep, apc>>
    /\ UNCHANGED <<extractVars, classifyVars, synthVars, callVars, visVars>>
HandlePause ==
    /\ analysis # JSNull
    /\ isPlaying
    /\ isPlaying' = FALSE
    /\ UNCHANGED <<appCode, analysis, isAnalyzing, error, currentStep, apc>>
    /\ UNCHANGED <<extractVars, classifyVars, synthVars, callVars, visVars>>
HandleReset ==
    /\ analysis # JSNull
    /\ currentStep' = 0
    /\ isPlaying' = FALSE
    /\ UNCHANGED <<appCode, analysis, isAnalyzing, error, apc>>
    /\ UNCHANGED <<extractVars, classifyVars, synthVars, callVars, visVars>>

\* the tick were it to leave isPlaying as it is at the last step
TickWithoutStop ==
    /\ isPlaying /\ StepsLength > 0
    /\ IF currentStep >= StepsLength - 1
       THEN UNCHANGED <<currentStep, isPlaying>>
       ELSE currentStep' = currentStep + 1 /\ UNCHANGED isPlaying
    /\ UNCHANGED <<appCode, analysis, isAnalyzing, error, apc>>
    /\ UNCHANGED <<extractVars, classifyVars, synthVars, callVars, visVars>>

\* a tick of the interval the auto-play effect sets while isPlaying and the
\* analysis has steps: lines 37-47
Tick ==
    /\ isPlaying /\ StepsLength > 0
    /\ IF currentStep >= StepsLength - 1
       THEN isPlaying' = FALSE /\ UNCHANGED currentStep
       ELSE currentStep' = currentStep + 1 /\ UNCHANGED isPlaying
    /\ UNCHANGED <<appCode, analysis, isAnalyzing, error, apc>>
    /\ UNCHANGED <<extractVars, classifyVars, synthVars, callVars, visVars>>

NextApp ==
    \/ SetCode
    \/ HandleAnalyzeBlank
    \/ HandleAnalyzeCall
    \/ HandleAnalyzeSettled
    \/ DismissError
    \/ HandleStepChange
    \/ HandlePlay
    \/ HandlePause
    \/ HandleReset
    \/ Tick
SpecApp == InitApp /\ [][NextApp]_vars

\* Play with no request of the user while the playback runs, and none for
\* a step, a pause or a reset: the current step moves by the timer alone.
\* While the effect's interval exists it keeps firing, hence the weak
\* fairness of Tick.
NextAutoPlay ==
    \/ ~isPlaying /\ SetCode
    \/ ~isPlaying /\ HandleAnalyzeBlank
    \/ ~isPlaying /\ HandleAnalyzeCall
    \/ ~isPlaying /\ HandleAnalyzeSettled
    \/ ~isPlaying /\ DismissError
    \/ HandlePlay
    \/ Tick
SpecAutoPlay == InitApp /\ [][NextAutoPlay]_vars /\ WF_vars(Tick)

(***************************************************************************)
(* The AlgorithmVisualizer component                                       *)
(* (frontend/src/components/Visualizer/AlgorithmVisualizer.jsx) with the   *)
(* PlaybackControls it renders. A handler the user invokes is the handler  *)
(* of the latest render, so it sees the current state; the handlePlay that *)
(* handleSpeedChange hands to setTimeout is the one of the render in which *)
(* the speed was changed, and sees the currentStep and animationSpeed of   *)
(* that render. Time is left out: ticks, the delayed call and the user's   *)
(* requests interleave freely; the delayed calls run in the order they     *)
(* were scheduled (they have the same delay).                              *)
(***************************************************************************)
\* the values of the speed selector
SpeedOptions == {5000, 2500, 1500, 1000}
\* the delayed calls of handlePlay that may be pending together
MaxPending == 2

\* an id setInterval has not given out to an interval that is running or
\* that playInterval still names
FreshId ==
    CHOOSE i \in 1..3 :
        /\ playInterval # Num(i)
        /\ \A t \in timers : t.id # Num(i)
\* clearInterval(id) on the set ts of running intervals
clearInterval(ts, id) == {t \in ts : t.id # id}

\* handlePlay as defined by a render with the given currentStep and
\* animationSpeed. setPlayInterval makes the cleanup of the effect of lines
\* 11-17 clear the interval playInterval named until then.
handlePlay(seenStep, seenSpeed) ==
    IF seenStep >= stepsLength - 1
    THEN UNCHANGED <<playing, playInterval, timers>>
    ELSE /\ playing' = TRUE
         /\ timers' = clearInterval(timers, playInterval)
                          \cup {[id |-> Num(FreshId), period |-> seenSpeed]}
         /\ playInterval' = Num(FreshId)
handlePause ==
    /\ playing' = FALSE
    /\ IF Truthy(playInterval)
       THEN timers' = clearInterval(timers, playInterval) /\ playInterval' = JSNull
       ELSE UNCHANGED <<timers, playInterval>>

InitVisualizer ==
    /\ stepsLength \in 1..MaxSteps
    /\ stepShown = 0
    /\ playing = FALSE /\ playInterval = JSNull /\ animationSpeed = 2500
    /\ timers = {} /\ pending = <<>> /\ stopped = FALSE
    /\ ExtractIdle /\ ClassifyIdle /\ SynthIdle /\ AppIdle /\ calls = {}

\* the play-pause button while isPlaying is false
VisPlay ==
    /\ ~playing
    /\ handlePlay(stepShown, animationSpeed)
    /\ stopped' = FALSE
    /\ UNCHANGED <<stepsLength, stepShown, animationSpeed, pending>>
    /\ UNCHANGED <<extractVars, classifyVars, synthVars, appVars, callVars>>
\* the play-pause button while isPlaying is true
VisPause ==
    /\ playing
    /\ handlePause
    /\ stopped' = TRUE
    /\ UNCHANGED <<stepsLength, stepShown, animationSpeed, pending>>
    /\ UNCHANGED <<extractVars, classifyVars, synthVars, appVars, callVars>>
VisNext ==
    /\ stepShown < stepsLength - 1
    /\ stepShown' = stepShown + 1
    /\ UNCHANGED <<stepsLength, playing, playInterval, animationSpeed, timers, pending, stopped>>
    /\ UNCHANGED <<extractVars, classifyVars, synthVars, appVars, callVars>>
VisPrevious ==
    /\ stepShown > 0
    /\ stepShown' = stepShown - 1
    /\ UNCHANGED <<stepsLength, playing, playInterval, animationSpeed, timers, pending, stopped>>
    /\ UNCHANGED <<extractVars, classifyVars, synthVars, appVars, callVars>>
VisReset ==
    /\ handlePause
    /\ stepShown' = 0
    /\ stopped' = TRUE
    /\ UNCHANGED <<stepsLength, animationSpeed, pending>>
    /\ UNCHANGED <<extractVars, classifyVars, synthVars, appVars, callVars>>
\* the speed selector: handleSpeedChange(newSpeed)
VisSpeedChange ==
    /\ \E newSpeed \in SpeedOptions \ {animationSpeed} :
          animationSpeed' = newSpeed
    /\ IF playing
       THEN /\ Len(pending) < MaxPending
            /\ handlePause
            \* setTimeout(handlePlay, 100)
            /\ pending' = Append(pending, [currentStep |-> stepShown,
                                           animationSpeed |-> animationSpeed])
       ELSE UNCHANGED <<playing, playInterval, timers, pending>>
    /\ UNCHANGED <<stepsLength, stepShown, stopped>>
    /\ UNCHANGED <<extractVars, classifyVars, synthVars, appVars, callVars>>
\* the delay is over: the handlePlay handed to setTimeout runs
VisTimeout ==
    /\ pending # <<>>
    /\ handlePlay(Head(pending).currentStep, Head(pending).animationSpeed)
    /\ pending' = Tail(pending)
    /\ UNCHANGED <<stepsLength, stepShown, animationSpeed, stopped>>
    /\ UNCHANGED <<extractVars, classifyVars, synthVars, appVars, callVars>>
\* an interval fires: the updater handed to onStepChange, lines 32-39
VisTick ==
    /\ \E t \in timers :
          IF stepShown >= stepsLength - 1
          THEN /\ playing' = FALSE
               /\ timers' = clearInterval(timers, t.id)
               /\ UNCHANGED stepShown
          ELSE /\ stepShown' = stepShown + 1
               /\ UNCHANGED <<playing, timers>>
    /\ UNCHANGED <<stepsLength, playInterval, animationSpeed, pending, stopped>>
    /\ UNCHANGED <<extractVars, classifyVars, synthVars, appVars, callVars>>

NextVisualizer ==
    \/ VisPlay
    \/ VisPause
    \/ VisNext
    \/ VisPrevious
    \/ VisReset
    \/ VisSpeedChange
    \/ VisTimeout
    \/ VisTick
SpecVisualizer == InitVisualizer /\ [][NextVisualizer]_vars

(***************************************************************************)
(* Properties of parseCodeInput (checked under SpecExtract)                *)
(***************************************************************************)
\* What the fragments and tokens are meant to hold, written down by hand:
\* the fragments that hold a bracket literal, those that write it as an
\* assignment to arr, nums or array, and the numbers of those.
AssignFrags == 1..3
AssignNumbers == << <<1, 3, 5, 7, 9, 11>>, <<2, 4>>, <<10>> >>
\* the fragment "target = 7" and the fragment of blanks
TargetSevenFrags == {7}
BlankFrags == {13}
\* the integer each token parses to, none for a token that is not a number
TokenNumbers == << <<7>>, <<12>>, <<>>, <<>>, <<-5>> >>

NumSeq(ns) == [i \in 1..Len(ns) |-> Num(ns[i])]
ExpectedNumbers(ts) == NumSeq(Concat([i \in 1..Len(ts) |-> TokenNumbers[ts[i]]]))

Returned == epc = "return"

\* C1: for every text and every explicit sequence and target, the instance
\* returned has at least one sequence, every sequence is non-empty and holds
\* only integers, and the target is an integer.
C1_WellFormedInstance ==
    (Returned /\ code.type = "string") =>
        /\ Len(parseResult.arrays) >= 1
        /\ \A i \in 1..Len(parseResult.arrays) :
              /\ Len(parseResult.arrays[i]) >= 1
              /\ \A j \in 1..Len(parseResult.arrays[i]) :
                    IsInteger(parseResult.arrays[i][j])
        /\ IsInteger(parseResult.target)

\* the text holds one bracket literal, written as an assignment, the pattern
\* "target = 7", and otherwise blanks
OneAssignedLiteral(fs) ==
    /\ \E i \in 1..Len(fs) :
          /\ fs[i] \in AssignFrags
          /\ \A j \in 1..Len(fs) : j # i => fs[j] \in TargetSevenFrags \cup BlankFrags
    /\ \E i \in 1..Len(fs) : fs[i] \in TargetSevenFrags
LiteralOf(fs) == fs[CHOOSE i \in 1..Len(fs) : fs[i] \in AssignFrags]

\* C8: with no explicit sequence, a text with exactly one bracket literal,
\* written as an assignment, and "target = 7" gives exactly one sequence, the
\* numbers of the literal in order, and the target 7.
C8_LiteralReportedOnce ==
    (/\ Returned /\ code.type = "string"
     /\ customArray = JSUndefined /\ customTarget = JSUndefined
     /\ OneAssignedLiteral(codeFrags)) =>
        /\ parseResult.arrays = <<NumSeq(AssignNumbers[LiteralOf(codeFrags)])>>
        /\ parseResult.target = Num(7)

\* C9: an explicit target that is an integer, 0 included, is the target of
\* the instance returned, whatever the text holds.
C9_ExplicitTargetWins ==
    (/\ Returned /\ code.type = "string"
     /\ customArray.type \in {"undefined", "string"}
     /\ customTarget.type = "number") =>
        parseResult.target = customTarget

\* C10: an explicit sequence with a token that parses is the only sequence
\* of the instance, its numeric tokens in order, whatever literals the text
\* holds; with no token that parses the sequences are those of the text.
C10_ExplicitSequence ==
    (Returned /\ code.type = "string" /\ customArray.type = "string") =>
        /\ (arrayToks # <<>> /\ ExpectedNumbers(arrayToks) # <<>>) =>
              parseResult.arrays = <<ExpectedNumbers(arrayToks)>>
        /\ (arrayToks # <<>> /\ ExpectedNumbers(arrayToks) = <<>>) =>
              parseResult.arrays = extractArrays(code)
        /\ customArray = Str(EditorArray) =>
              parseResult.arrays = <<NumSeq(<<1, 3, 5, 7, 9, 11>>)>>
        /\ customArray = Str(<<>>) => parseResult.arrays = extractArrays(code)
\* the explicit sequence "x,7" against the text "arr = [1, 3, 5, 7, 9, 11]"
C10_Witness ==
    /\ Returned
    /\ arrayToks = <<3, 1>> /\ codeFrags = <<1>>
    /\ parseResult.arrays = << <<Num(7)>> >>

\* a step of parseCodeInput raises: customArray.split is not a function, or
\* extractTarget is reached with a code that has no match method
Raises ==
    \/ Truthy(customArray) /\ customArray.type # "string"
    \/ ~Truthy(customTarget) /\ code.type # "string"

\* C12: parseCodeInput always returns an instance, and when a step of it
\* raises, the instance is exactly the default one: the single sequence
\* [1, 3, 5, 7, 9, 11, 13, 15, 17, 19] and the target 7.
C12_DefaultOnError ==
    Returned =>
        /\ Len(parseResult.arrays) >= 1
        /\ parseResult.target.type = "number"
        /\ Raises =>
              /\ parseResult.arrays = <<NumSeq(<<1, 3, 5, 7, 9, 11, 13, 15, 17, 19>>)>>
              /\ parseResult.target = Num(7)
\* the explicit sequence was parsed before extractTarget raised on an
\* undefined code: the sequence already taken is replaced by the default
C12_Witness ==
    /\ Returned
    /\ code = JSUndefined /\ customArray = Str(EditorArray)
    /\ customTarget = JSUndefined
    /\ parseResult.arrays = <<DefaultArray>>

\* the fragments with no bracket literal that holds a number and no target
\* pattern: "[x]", blanks, and "arr = [] target = x"
PlainFrags == {5, 13, 14}

\* C18: with no explicit sequence and no explicit target, a text that is
\* empty, blank, or without a bracket literal that holds a number and
\* without a target pattern gives exactly the default instance.
C18_DefaultInstance ==
    (/\ Returned /\ code.type = "string"
     /\ customArray = JSUndefined /\ customTarget = JSUndefined
     /\ \A i \in 1..Len(codeFrags) : codeFrags[i] \in PlainFrags) =>
        /\ parseResult.arrays = <<NumSeq(<<1, 3, 5, 7, 9, 11, 13, 15, 17, 19>>)>>
        /\ parseResult.target = Num(7)
\* the text "arr = [] target = x" followed by blanks
C18_Witness ==
    /\ Returned
    /\ codeFrags = <<14, 13>>
    /\ customArray = JSUndefined /\ customTarget = JSUndefined
    /\ parseResult.arrays = <<DefaultArray>> /\ parseResult.target = Num(7)

\* Written down by hand: the place in the fixed order of the pattern each
\* fragment is an instance of (0 for a fragment that is an instance of none),
\* and the number the fragment writes there.
FragPattern == <<0, 0, 0, 0, 0, 0, 1, 1, 2, 3, 4, 5, 0, 0>>
FragNumber == <<0, 0, 0, 0, 0, 0, 7, 0, 3, 4, 5, 9, 0, 0>>
\* the places in fs of the fragments that are an instance of some pattern
TargetPlaces(fs) == {i \in 1..Len(fs) : FragPattern[fs[i]] > 0}
\* the place whose pattern comes first in the fixed order, the leftmost of them
WinningPlace(fs) ==
    CHOOSE i \in TargetPlaces(fs) :
        \A j \in TargetPlaces(fs) :
            \/ FragPattern[fs[i]] < FragPattern[fs[j]]
            \/ (FragPattern[fs[i]] = FragPattern[fs[j]] /\ i <= j)

\* C21: with no explicit target, the target is the number captured by the
\* first pattern, in the order target = N, find(N), search(..., N), == N,
\* target: N, that matches anywhere in the text, also when a later pattern
\* matches further to the left; it is the default 7 when no pattern matches.
C21_FirstPatternWins ==
    (Returned /\ customTarget = JSUndefined /\ code = Str(TextOf(codeFrags))
              /\ ~Raises) =>
        IF TargetPlaces(codeFrags) = {}
        THEN parseResult.target = Num(DefaultTarget)
        ELSE parseResult.target = Num(FragNumber[codeFrags[WinningPlace(codeFrags)]])
\* "target: 9find(3)": target: N matches first in the text, find(N) wins
C21_Witness ==
    /\ Returned /\ customTarget = JSUndefined
    /\ codeFrags = <<12, 9>> /\ code = Str(TextOf(codeFrags)) /\ ~Raises
    /\ parseResult.target = Num(3)

(***************************************************************************)
(* Properties of detectAlgorithm (checked under SpecClassify)              *)
(***************************************************************************)
Registry ==
    <<"Binary Search", "Two Pointers", "Sliding Window", "Sorting Algorithm",
      "Dynamic Programming", "Tree Traversal">>
RegistryNames == {Registry[i] : i \in 1..Len(Registry)}
Classified == cpc = "return"
\* the confidence the detector called name gave
ScoreOf(name) == detected[CHOOSE i \in 1..Len(detected) : detected[i].name = name].score
\* the greatest confidence
TopScore ==
    ScoreOf(CHOOSE n \in RegistryNames :
                \A m \in RegistryNames : ~FLess(ScoreOf(n), ScoreOf(m)))
InUnitInterval(x) == ~FLess(x, F0_0) /\ ~FLess(F1_0, x)
\* the words of the vocabulary that hold no keyword
NeutralWords == {21}

\* C3: the label is one of the six detector names or "Unknown Algorithm", and
\* each of the six detectors gives a confidence within [0, 1].
C3_LabelAndConfidence ==
    Classified =>
        /\ label \in RegistryNames \cup {"Unknown Algorithm"}
        /\ Len(detected) = 6
        /\ {detected[i].name : i \in 1..Len(detected)} = RegistryNames
        /\ \A i \in 1..Len(detected) : InUnitInterval(detected[i].score)
\* a text with "mid": the penalty takes the two-pointer score below 0 and
\* the binary-search score is cut at 1
C3_Witness ==
    /\ Classified
    /\ textWords = {3, 4, 6}
    /\ ScoreOf("Two Pointers") = F0_0
    /\ ScoreOf("Binary Search") = F1_0
    /\ label = "Binary Search"

\* C4: the label is that of a detector with the greatest confidence when
\* that confidence is above 0.3, "Unknown Algorithm" otherwise; a text with
\* no keyword is "Unknown Algorithm".
C4_ThresholdRule ==
    Classified =>
        /\ FLess(Threshold, TopScore) =>
              label \in RegistryNames /\ ScoreOf(label) = TopScore
        /\ ~FLess(Threshold, TopScore) => label = "Unknown Algorithm"
        /\ textWords \subseteq NeutralWords => label = "Unknown Algorithm"
\* "swap" alone: the greatest confidence is exactly 0.3
C4_Witness ==
    /\ Classified
    /\ textWords = {13}
    /\ TopScore = F0_3
    /\ label = "Unknown Algorithm"

\* C5: when several detectors share the greatest confidence and it is above
\* 0.3, the label is that of the first of them in the order of the registry.
C5_FirstRegisteredWins ==
    (Classified /\ FLess(Threshold, TopScore)) =>
        LET first == CHOOSE i \in 1..Len(Registry) :
                        /\ ScoreOf(Registry[i]) = TopScore
                        /\ \A j \in 1..(i - 1) : ScoreOf(Registry[j]) # TopScore
        IN  label = Registry[first]
\* "sorted window": Sliding Window and Sorting Algorithm both give 0.4
C5_Witness ==
    /\ Classified
    /\ ScoreOf("Sliding Window") = TopScore
    /\ ScoreOf("Sorting Algorithm") = TopScore
    /\ FLess(Threshold, TopScore)
    /\ label = "Sliding Window"

\* the text holds the substrings left, right, mid and //
HasBinarySearchWords ==
    /\ includes(text, K.left) /\ includes(text, K.right)
    /\ includes(text, K.mid) /\ includes(text, K.slashslash)
\* 0.3 + 0.4 + 0.1 as the detector adds them
BinarySearchCore == FAdd(FAdd(F0_3, F0_4), F0_1)

\* C13 as stated: every text with left, right, mid and // is classified as
\* "Binary Search", with a binary-search confidence above 0.3.
C13_AlwaysBinarySearch ==
    (Classified /\ HasBinarySearchWords) =>
        /\ label = "Binary Search"
        /\ FLess(Threshold, ScoreOf("Binary Search"))
\* C13 as amended: for such a text the binary-search confidence is at least
\* 0.3 + 0.4 + 0.1, above 0.3; the label is "Binary Search" unless another
\* detector gives a strictly greater confidence, and then it is the label of
\* such a detector; it is never "Two Pointers" or "Unknown Algorithm".
C13_BinarySearchUnlessOutscored ==
    (Classified /\ HasBinarySearchWords) =>
        /\ FLess(Threshold, ScoreOf("Binary Search"))
        /\ ~FLess(ScoreOf("Binary Search"), BinarySearchCore)
        /\ label \in RegistryNames \ {"Two Pointers"}
        /\ label # "Binary Search" =>
              FLess(ScoreOf("Binary Search"), ScoreOf(label))
        /\ (\A n \in RegistryNames : ~FLess(ScoreOf("Binary Search"), ScoreOf(n))) =>
              label = "Binary Search"
\* "mid = (left + right) // 2 tree dfs(root)": Tree Traversal gives 1
C13_Witness ==
    /\ Classified /\ HasBinarySearchWords
    /\ label = "Tree Traversal"
    /\ ScoreOf("Tree Traversal") = F1_0
    /\ ScoreOf("Binary Search") = BinarySearchCore

\* C20: for every text that holds the substring mid, whatever other keywords
\* it holds, the two-pointer confidence is at most 0.3 and the label is not
\* "Two Pointers".
C20_MidRulesOutTwoPointers ==
    (Classified /\ includes(text, K.mid)) =>
        /\ ~FLess(F0_3, ScoreOf("Two Pointers"))
        /\ label # "Two Pointers"
\* "mid = (left + right) // 2 ++ sum": every positive weight that mid leaves
\* open is added, 0.3 + 0.2 + 0.2 - 0.4, and the confidence stays positive
C20_Witness ==
    /\ Classified /\ includes(text, K.mid)
    /\ includes(text, K.plusplus) /\ includes(text, K.sum)
    /\ ScoreOf("Two Pointers") = FSub(FAdd(FAdd(F0_3, F0_2), F0_2), F0_4)
    /\ FLess(F0_0, ScoreOf("Two Pointers"))

(***************************************************************************)
(* Properties of generateVisualizationSteps (checked under SpecSynth)      *)
(***************************************************************************)
Synthesized == pc = "return"
\* a step that carries a number: "Step <stepCount>: Calculate mid = <mid>"
IsCompareStep(st) ==
    st.type = "binary_search" /\ st.description.text = "Step: Calculate mid"
IsFoundStep(st) == st.type = "binary_search" /\ st.found
CarriesIndex(st, i) == IsCompareStep(st) /\ st.description.step = i
\* the call of the scenario: binary search over [1, 3, 5, 7, 9, 11]
Scenario(t) ==
    /\ algorithm = "Binary Search"
    /\ parsedData = [arrays |-> <<ScenarioArray>>, target |-> Num(t)]
\* the target of the instance is a number that is not in its first sequence
TargetAbsent ==
    /\ parsedData.target.type = "number"
    /\ \A i \in 1..Len(arrayOf(parsedData)) : arrayOf(parsedData)[i] # parsedData.target

C6_AbsentTargetNotFound ==
    (Synthesized /\ algorithm = "Binary Search" /\ TargetAbsent) =>
        /\ \A i \in 1..Len(steps) : ~steps[i].found
        /\ Len(steps) <= StepCap
        /\ IF Len(steps) = 1 THEN steps[1].mid = JSNull
           ELSE IsCompareStep(steps[Len(steps)])

\* C7 as stated: target 7 in [1, 3, 5, 7, 9, 11] gives 4 steps: the initial
\* step, comparisons at mid 2 and 4, and the found step at mid 3.
C7_ScenarioFourSteps ==
    (Synthesized /\ Scenario(7)) =>
        /\ Len(steps) = 4
        /\ steps[1].mid = JSNull
        /\ IsCompareStep(steps[2]) /\ steps[2].mid = Num(2)
        /\ IsCompareStep(steps[3]) /\ steps[3].mid = Num(4)
        /\ steps[4].found /\ steps[4].mid = Num(3)
\* C7 as amended: 5 steps: the initial step, comparisons at mid 2, 4 and 3,
\* and the found step at mid 3.
C7_ScenarioFiveSteps ==
    (Synthesized /\ Scenario(7)) =>
        /\ Len(steps) = 5
        /\ steps[1].mid = JSNull /\ ~steps[1].found
        /\ IsCompareStep(steps[2]) /\ steps[2].mid = Num(2) /\ ~steps[2].found
        /\ IsCompareStep(steps[3]) /\ steps[3].mid = Num(4) /\ ~steps[3].found
        /\ IsCompareStep(steps[4]) /\ steps[4].mid = Num(3) /\ ~steps[4].found
        /\ IsFoundStep(steps[5]) /\ steps[5].mid = Num(3)
        /\ steps[5].array[3 + 1] = Num(7)
C7_Witness ==
    /\ Synthesized /\ Scenario(7)
    /\ Len(steps) = 5
    /\ steps[5].found

\* C14: for every label other than "Binary Search" the trace has exactly one
\* step, and that step carries the instance given, unchanged.
C14_PlaceholderStep ==
    (Synthesized /\ algorithm # "Binary Search") =>
        /\ Len(steps) = 1
        /\ steps[1].data = parsedData
        /\ steps[1].type \in {"simple", "two_pointers"}
\* a two-pointer call whose instance has the target 0
C14_Witness ==
    /\ Synthesized
    /\ algorithm = "Two Pointers"
    /\ parsedData.target = Num(0)
    /\ Len(steps) = 1 /\ steps[1].data = parsedData

InBinarySearch == algorithm = "Binary Search" /\ pc \in {"loop", "return"}
ComparisonSteps == {i \in 1..Len(steps) : IsCompareStep(steps[i])}
HasFoundStep == \E i \in 1..Len(steps) : steps[i].found

\* C15: a comparison step is pushed only while left <= right and fewer than
\* 10 steps have been pushed; a trace has at most 9 comparison steps, at
\* most 10 steps when it has no found step, and at most 11 steps.
C15_StepCap ==
    /\ [](InBinarySearch =>
            /\ Cardinality(ComparisonSteps) <= 9
            /\ ~HasFoundStep => Len(steps) <= 10
            /\ Len(steps) <= 11)
    /\ [][(pc = "loop" /\ Len(steps') > Len(steps)) =>
            /\ left <= right
            /\ Len(steps) < 10
            /\ IsCompareStep(steps'[Len(steps) + 1])]_vars
\* the ninth comparison finds the target: 11 steps
C15_Witness ==
    /\ Synthesized /\ algorithm = "Binary Search"
    /\ Len(steps) = 11
    /\ Cardinality(ComparisonSteps) = 9
    /\ steps[11].found

\* the comparison step i hits the target: array[mid] === target
Hits(i) ==
    /\ IsCompareStep(steps[i])
    /\ StrictEq(steps[i].array[steps[i].mid.val + 1], steps[i].target)

\* C16: a found step occurs at most once and is the last step; it follows a
\* comparison step with the same left, right and mid, and array[mid] is the
\* target in it; every comparison that hits the target is followed by the
\* found step, the last comparison the cap allows included; no step is
\* pushed once the search has ended.
C16_FoundStepEndsTrace ==
    /\ [](InBinarySearch =>
            \A i \in 1..Len(steps) :
                /\ steps[i].found =>
                      /\ i = Len(steps) /\ i >= 2 /\ pc = "return"
                      /\ Hits(i - 1)
                      /\ steps[i].left = steps[i - 1].left
                      /\ steps[i].right = steps[i - 1].right
                      /\ steps[i].mid = steps[i - 1].mid
                      /\ steps[i].array = steps[i - 1].array
                      /\ steps[i].target = steps[i - 1].target
                /\ Hits(i) => i < Len(steps) /\ steps[i + 1].found)
    /\ [][pc = "return" => steps' = steps]_vars
\* the comparison that hits is the ninth, the last one the cap allows
C16_Witness ==
    /\ Synthesized /\ algorithm = "Binary Search"
    /\ stepCount = 9
    /\ Hits(10)
    /\ steps[11].found /\ steps[11].mid = steps[10].mid

\* the step i + 1 is the comparison step that follows the comparison step i
\* in the reference simulation
FollowsReference(i) ==
    LET s == steps[i]
        n == steps[i + 1]
        value == s.array[s.mid.val + 1]
    IN  /\ n.array = s.array /\ n.target = s.target
        /\ \/ /\ NumLess(value, s.target)
              /\ n.left = s.mid.val + 1 /\ n.right = s.right
           \/ /\ NumLess(s.target, value)
              /\ n.right = s.mid.val - 1 /\ n.left = s.left

\* C19: the first step has left = 0, right = length - 1, no mid and
\* found = false; every comparison step has mid = floor((left + right) / 2)
\* and found = false; from a comparison step to the next exactly one bound
\* moves, left to mid + 1 when array[mid] < target and right to mid - 1 when
\* array[mid] > target, the other bound and the array staying as they were.
C19_ReferenceSimulation ==
    InBinarySearch =>
        /\ steps[1].left = 0
        /\ steps[1].right = Len(arrayOf(parsedData)) - 1
        /\ steps[1].array = arrayOf(parsedData)
        /\ steps[1].mid = JSNull /\ ~steps[1].found
        /\ Len(steps) >= 2 => (steps[2].left = 0 /\ steps[2].right = steps[1].right)
        /\ \A i \in 2..Len(steps) :
              IsCompareStep(steps[i]) =>
                  /\ ~steps[i].found
                  /\ 2 * steps[i].mid.val <= steps[i].left + steps[i].right
                  /\ steps[i].left + steps[i].right <= 2 * steps[i].mid.val + 1
                  /\ (i < Len(steps) /\ IsCompareStep(steps[i + 1])) => FollowsReference(i)
\* the scenario: left moves to 3 after mid 2, right moves to 3 after mid 4
C19_Witness ==
    /\ Synthesized /\ Scenario(7)
    /\ steps[2].left = 0 /\ steps[2].right = 5 /\ steps[2].mid = Num(2)
    /\ steps[3].left = 3 /\ steps[3].right = 5 /\ steps[3].mid = Num(4)
    /\ steps[4].left = 3 /\ steps[4].right = 3 /\ steps[4].mid = Num(3)

IsAscending(a) == \A i \in 1..(Len(a) - 1) : ~NumLess(a[i + 1], a[i])
Occurs(t, a) == \E i \in 1..Len(a) : StrictEq(a[i], t)
\* the instance holds an ascending array of 1 to 511 numbers and a nonzero
\* target that occurs in it
SortedWithTarget ==
    /\ Len(parsedData.arrays) > 0
    /\ Len(parsedData.arrays[1]) \in 1..511
    /\ IsAscending(parsedData.arrays[1])
    /\ IsNumber(parsedData.target) /\ parsedData.target # Num(0)
    /\ Occurs(parsedData.target, parsedData.arrays[1])

\* C23: for every ascending array of 1 to 511 integers and every nonzero
\* target that occurs in it, the binary-search trace ends with a found step
\* whose mid is an index at which the array holds the target.
C23_PresentTargetFound ==
    (Synthesized /\ algorithm = "Binary Search" /\ SortedWithTarget) =>
        LET last == steps[Len(steps)]
        IN  /\ last.found
            /\ last.array = parsedData.arrays[1]
            /\ IsNumber(last.mid) /\ last.mid.val \in 0..(Len(last.array) - 1)
            /\ last.array[last.mid.val + 1] = parsedData.target
\* the first of 511 elements is found by the ninth comparison
C23_Witness ==
    /\ Synthesized /\ algorithm = "Binary Search" /\ SortedWithTarget
    /\ Len(parsedData.arrays[1]) = 511
    /\ parsedData.target = Num(1)
    /\ Len(steps) = 11
    /\ steps[11].found /\ steps[11].mid = Num(0)

\* C24: in every comparison step over an array of length n >= 1,
\* 0 <= left <= mid <= right <= n - 1, so array[mid] is an element of the
\* array, and right - left strictly decreases from each comparison step to
\* the next.
C24_BoundsAndProgress ==
    (InBinarySearch /\ Len(arrayOf(parsedData)) >= 1) =>
        \A i \in 1..Len(steps) :
            IsCompareStep(steps[i]) =>
                /\ 0 <= steps[i].left
                /\ steps[i].left <= steps[i].mid.val
                /\ steps[i].mid.val <= steps[i].right
                /\ steps[i].right <= Len(steps[i].array) - 1
                /\ steps[i].mid.val + 1 \in DOMAIN steps[i].array
                /\ (i < Len(steps) /\ IsCompareStep(steps[i + 1])) =>
                      steps[i + 1].right - steps[i + 1].left
                          < steps[i].right - steps[i].left
\* the scenario: the widths of the three comparison steps are 5, 2 and 0
C24_Witness ==
    /\ Synthesized /\ Scenario(7)
    /\ steps[2].right - steps[2].left = 5
    /\ steps[3].right - steps[3].left = 2
    /\ steps[4].right - steps[4].left = 0
    /\ IsCompareStep(steps[4])

\* C25: the target recorded in every step of a binary-search trace, and the
\* target the comparisons are made against, is the target of the instance,
\* for every integer target, 0 included.
C25_TargetOfInstance ==
    (InBinarySearch /\ IsInteger(parsedData.target)) =>
        /\ target = parsedData.target
        /\ \A i \in 1..Len(steps) : steps[i].target = parsedData.target

(***************************************************************************)
(* Properties of the App component and MLAnalysisService (SpecApp)         *)
(***************************************************************************)
\* C11: when the request of the ML service fails or its response is not ok,
\* handleAnalyze still ends with an analysis loaded (from local detection),
\* not with an error and no analysis.
C11_FallbackToLocalDetection ==
    [][(apc = "await" /\ apc' = "idle") => analysis' # JSNull]_vars

\* C28: analysis and error are never both set, in every state reached by
\* Analyze clicks (blank or non-blank code, succeeding or failing) and
\* dismissals of the error.
C28_AnalysisOrError == ~(analysis # JSNull /\ error # JSNull)

\* C27: while an analysis with N >= 1 steps is loaded, currentStep stays
\* within 0..N-1 whatever step requests (any integer offset), Reset, Play,
\* Pause and ticks of the auto-play timer take place, and none of them
\* changes the analysis: only handleAnalyze does.
C27_StepWithinTrace ==
    /\ [](StepsLength >= 1 => currentStep \in 0..(StepsLength - 1))
    /\ [][apc' = apc => analysis' = analysis]_vars
\* the last step of the longest trace, reached while playing
C27_Witness ==
    /\ StepsLength = MaxSteps
    /\ currentStep = StepsLength - 1
    /\ isPlaying

\* C29 (checked under SpecAutoPlay): after Play on an analysis with N >= 1
\* steps, with the timer ticking and no other request, currentStep advances
\* by exactly one per tick, eventually is N - 1 with isPlaying false, and
\* while isPlaying is false no tick takes place.
C29_PlaysToTheEnd ==
    /\ [][isPlaying =>
              \/ currentStep' = currentStep + 1 /\ isPlaying'
              \/ /\ currentStep' = currentStep /\ ~isPlaying'
                 /\ currentStep = StepsLength - 1]_vars
    /\ (isPlaying /\ StepsLength >= 1)
           ~> (~isPlaying /\ StepsLength >= 1 /\ currentStep = StepsLength - 1)
    /\ [](~isPlaying => ~ENABLED Tick)
\* the longest trace played from its first step to its last
C29_Witness ==
    /\ StepsLength = MaxSteps
    /\ currentStep = MaxSteps - 1
    /\ ~isPlaying

\* C30: for every response whose primary_pattern is BINARY_SEARCH or
\* TWO_POINTERS, each of left, right and mid that is defined in a step's
\* variables_after is copied, with the same value, into the pointers of
\* that step's visualizationData.
C30_PointersCopied ==
    (analysis # JSNull
        /\ analysis.algorithm.type \in {Str(S.BINARY_SEARCH), Str(S.TWO_POINTERS)}) =>
        \A i \in 1..Len(analysis.executionSteps) :
            LET step == analysis.executionSteps[i]
            IN  /\ step.variablesAfter.left # JSUndefined =>
                      step.pointers.left = step.variablesAfter.left
                /\ step.variablesAfter.right # JSUndefined =>
                      step.pointers.right = step.variablesAfter.right
                /\ step.variablesAfter.mid # JSUndefined =>
                      step.pointers.mid = step.variablesAfter.mid

(***************************************************************************)
(* Properties of calls made one after another (SpecCalls)                  *)
(***************************************************************************)
\* the result of the call that has just returned, none when none has
Returning ==
    IF epc = "return"
    THEN {[fn |-> "parseCodeInput", args |-> <<code, customArray, customTarget>>,
           result |-> parseResult]}
    ELSE IF cpc = "return"
    THEN {[fn |-> "detectAlgorithm", args |-> <<text>>, result |-> label]}
    ELSE IF pc = "return"
    THEN {[fn |-> "generateVisualizationSteps", args |-> <<algorithm, parsedData>>,
           result |-> steps]}
    ELSE {}

DelayedPlay == pending # <<>> /\ pending' = Tail(pending)
\* the speed is changed in this step
SpeedChanged == animationSpeed' # animationSpeed

\* C22: a change of the speed while playback runs pauses playback, and the
\* interval the delayed handlePlay then starts has the newly selected speed
\* as its period, not the speed in force before the change.
C22_RestartWithNewSpeed ==
    /\ [][(SpeedChanged /\ playing) =>
              (~playing' /\ timers' = {} /\ Len(pending') = Len(pending) + 1)]_vars
    /\ [][DelayedPlay => \A t \in timers' \ timers : t.period = animationSpeed]_vars

\* some interval that is running would advance the current step at its next
\* tick
TimerAdvances == timers # {} /\ stepShown < stepsLength - 1

\* C26: once the user's Pause or Reset has run, no timer advances the
\* current step until the user invokes Play again, whatever the interleaving
\* of Play, Pause, Reset, speed changes, ticks and delayed restarts.
C26_StoppedStaysStopped == stopped => ~TimerAdvances

=============================================================================
